---- MODULE Spec2Model ----
(***************************************************************************)
(* A model of the tldraw document store of src/src/index.ts: the path      *)
(* sandbox, the document validator, the three storage encodings (plain,    *)
(* wrapped, embedded in markdown), the shape operations and the corpus     *)
(* operations (list, search), over a small file system.                    *)
(*                                                                         *)
(* Texts (file contents, paths, every JavaScript string) are sequences of  *)
(* atoms.  An atom is one character or one unsplittable run of characters  *)
(* ("geo", ".tldr", a whole marker phrase).  JSON values are tagged        *)
(* records; an object is the ordered sequence of its members, as in        *)
(* JavaScript.                                                             *)
(***************************************************************************)
EXTENDS Integers, Sequences, FiniteSets, TLC

\* fs: the files, by absolute path; pre: the files before the last operation;
\* last: the last operation, its arguments and its outcome; hist: the operations
\* so far, in order; flight: the operations that are suspended at a file system call,
\* one for each of two callers
VARIABLES fs, pre, last, hist, flight

vars == <<fs, pre, last, hist, flight>>

(***************************************************************************)
(* Text primitives: the String methods the code uses                      *)
(***************************************************************************)
Q == "\""
NL == "\n"
SP == " "
WsAtoms == {NL, SP}

\* the two marker phrases, one atom each
MARKDOWN_TLDRAW_START_MARKER == <<"!!!_START_OF_TLDRAW_DATA__DO_NOT_CHANGE_THIS_PHRASE_!!!">>
MARKDOWN_TLDRAW_END_MARKER == <<"!!!_END_OF_TLDRAW_DATA__DO_NOT_CHANGE_THIS_PHRASE_!!!">>

\* s.slice(a, b), 0-based, end exclusive
Slice(s, a, b) == SubSeq(s, a + 1, b)

\* s.slice(a)
SliceFrom(s, a) == SubSeq(s, a + 1, Len(s))

\* whether m occurs in s at 0-based offset i
OccursAt(s, m, i) == /\ i >= 0
                     /\ i + Len(m) <= Len(s)
                     /\ Slice(s, i, i + Len(m)) = m

\* s.indexOf(m, from): the least offset >= from at which m occurs, else -1
IndexOf(s, m, from) ==
  LET hits == {i \in from..(Len(s) - Len(m)) : OccursAt(s, m, i)}
  IN IF hits = {} THEN -1 ELSE CHOOSE i \in hits : \A j \in hits : i <= j

Includes(s, m) == IndexOf(s, m, 0) # -1

StartsWith(s, m) == OccursAt(s, m, 0)

EndsWith(s, m) == OccursAt(s, m, Len(s) - Len(m))

RECURSIVE TrimStart(_)
TrimStart(s) == IF s # <<>> /\ Head(s) \in WsAtoms THEN TrimStart(Tail(s)) ELSE s

RECURSIVE TrimEnd(_)
TrimEnd(s) == IF s # <<>> /\ s[Len(s)] \in WsAtoms THEN TrimEnd(SubSeq(s, 1, Len(s) - 1)) ELSE s

Trim(s) == TrimEnd(TrimStart(s))

LowerAtom(a) == CASE a = "H" -> "h"
                  [] a = "I" -> "i"
                  [] a = "GEO" -> "geo"
                  [] OTHER -> a

ToLowerCase(s) == [i \in 1..Len(s) |-> LowerAtom(s[i])]

\* s.replace(m, ""): the first occurrence of m removed
ReplaceFirst(s, m) ==
  LET i == IndexOf(s, m, 0)
  IN IF i = -1 THEN s ELSE Slice(s, 0, i) \o SliceFrom(s, i + Len(m))

(***************************************************************************)
(* JSON values                                                             *)
(***************************************************************************)
DigitAtoms == <<"0", "1", "2", "3", "4", "5", "6", "7", "8", "9">>

RECURSIVE NumText(_)
NumText(n) == IF n < 10 THEN <<DigitAtoms[n + 1]>>
              ELSE NumText(n \div 10) \o <<DigitAtoms[(n % 10) + 1]>>

\* the property name of array index i
IndexKey(i) == NumText(i)

JUndef == [t |-> "undef"]
JNull == [t |-> "null"]
JBool(b) == [t |-> "bool", v |-> b]
JNum(n) == [t |-> "num", v |-> n]
JStr(s) == [t |-> "str", v |-> s]
JArr(a) == [t |-> "arr", v |-> a]
JObj(m) == [t |-> "obj", v |-> m]
Mem(k, v) == [k |-> <<k>>, v |-> v]

\* typeof x === "object" (null, arrays and objects)
TypeofObject(x) == x.t \in {"null", "arr", "obj"}

\* JavaScript truthiness
Truthy(x) == CASE x.t \in {"undef", "null"} -> FALSE
               [] x.t = "bool" -> x.v
               [] x.t = "num" -> x.v # 0
               [] x.t = "str" -> x.v # <<>>
               [] OTHER -> TRUE

\* own enumerable members of a value, as property access and the spread
\* operator see them: an array and a string have their indices
Members(x) ==
  CASE x.t = "obj" -> x.v
    [] x.t = "arr" -> [i \in 1..Len(x.v) |-> [k |-> IndexKey(i - 1), v |-> x.v[i]]] \o <<>>
    [] x.t = "str" ->
         [i \in 1..Len(x.v) |-> [k |-> IndexKey(i - 1), v |-> JStr(<<x.v[i]>>)]] \o <<>>
    [] OTHER -> <<>>

KeyIndex(ms, k) ==
  LET hits == {i \in 1..Len(ms) : ms[i].k = k}
  IN IF hits = {} THEN 0 ELSE CHOOSE i \in hits : \A j \in hits : i <= j

\* "k" in x
HasKey(x, k) == KeyIndex(Members(x), <<k>>) # 0

\* the value of key k among the members ms, undefined when absent
MemberValue(ms, k) ==
  LET i == KeyIndex(ms, k)
  IN IF i = 0 THEN JUndef ELSE ms[i].v

\* x.k (undefined when absent, and for a value that has no such property)
Get(x, k) == MemberValue(Members(x), <<k>>)

\* members ms after ms[k] = v: in place when the key exists, appended otherwise
SetMember(ms, k, v) ==
  LET i == KeyIndex(ms, k)
  IN IF i = 0 THEN Append(ms, [k |-> k, v |-> v])
     ELSE [ms EXCEPT ![i] = [k |-> k, v |-> v]]

\* x[k] = v on an object
Set(x, k, v) == JObj(SetMember(Members(x), <<k>>, v))

\* ms after ms[m.k] = m.v for each m of more in turn: a key keeps the place
\* of its first occurrence and takes the value of its last
AssignAll(ms, more) ==
  LET all == ms \o more
      firsts == SelectSeq([i \in 1..Len(all) |-> i],
                          LAMBDA i : \A j \in 1..(i - 1) : all[j].k # all[i].k)
      LastOf(k) == CHOOSE i \in 1..Len(all) :
                     /\ all[i].k = k
                     /\ \A j \in (i + 1)..Len(all) : all[j].k # k
  IN [n \in 1..Len(firsts) |->
        [k |-> all[firsts[n]].k, v |-> all[LastOf(all[firsts[n]].k)].v]] \o <<>>

\* { ...a, ...b }
Spread(a, b) == JObj(AssignAll(Members(a), Members(b)))

\* a === b for the primitives the code compares
StrictEq(a, b) == a.t = b.t /\ a = b

\* a || b
JsOr(a, b) == IF Truthy(a) THEN a ELSE b

(***************************************************************************)
(* JSON.stringify: the text of a value.  Indentation is not produced       *)
(* (JSON.parse skips it); strings hold no atom that JSON.stringify writes  *)
(* as an escape.  A member whose value is undefined is left out; an        *)
(* undefined element is written null.                                      *)
(***************************************************************************)
\* the texts ts one after the other
RECURSIVE Flatten(_)
Flatten(ts) ==
  IF Len(ts) = 0 THEN <<>>
  ELSE IF Len(ts) = 1 THEN ts[1]
  ELSE LET m == Len(ts) \div 2
       IN Flatten(SubSeq(ts, 1, m)) \o Flatten(SubSeq(ts, m + 1, Len(ts)))

\* ts.join(sep)
JoinWith(ts, sep) ==
  Flatten([i \in 1..Len(ts) |-> IF i = 1 THEN ts[i] ELSE sep \o ts[i]])

RECURSIVE Stringify(_)
Stringify(x) ==
  CASE x.t = "null" -> <<"null">>
    [] x.t = "bool" -> IF x.v THEN <<"true">> ELSE <<"false">>
    [] x.t = "num" -> NumText(x.v)
    [] x.t = "str" -> <<Q>> \o x.v \o <<Q>>
    [] x.t = "arr" ->
         <<"[">>
         \o Flatten([i \in 1..Len(x.v) |->
                       (IF i = 1 THEN <<>> ELSE <<",">>)
                       \o (IF x.v[i].t = "undef" THEN <<"null">> ELSE Stringify(x.v[i]))])
         \o <<"]">>
    [] x.t = "obj" ->
         LET ms == SelectSeq(x.v, LAMBDA m : m.v.t # "undef")
         IN <<"{">>
            \o Flatten([i \in 1..Len(ms) |->
                          (IF i = 1 THEN <<>> ELSE <<",">>)
                          \o <<Q>> \o ms[i].k \o <<Q, ":">> \o Stringify(ms[i].v)])
            \o <<"}">>

(***************************************************************************)
(* JSON.parse.  The text is scanned once (which atoms stand outside a      *)
(* string, how deep in brackets each one is); a value is then parsed from  *)
(* the range of positions it occupies, a container from the ranges between *)
(* its own commas.                                                         *)
(***************************************************************************)
\* JSON.parse threw
ParseFail == [ok |-> FALSE, err |-> "MalformedContent", v |-> JUndef]

ParseOk(v) == [ok |-> TRUE, err |-> "", v |-> v]

DigitValue(a) == CHOOSE d \in 0..9 : DigitAtoms[d + 1] = a

IsDigit(a) == \E d \in 0..9 : DigitAtoms[d + 1] = a

\* the running totals of w: the i-th is w[1] + ... + w[i]
RECURSIVE PrefixSums(_)
PrefixSums(w) ==
  IF Len(w) <= 1 THEN w
  ELSE LET m == Len(w) \div 2
           left == PrefixSums(SubSeq(w, 1, m))
           right == PrefixSums(SubSeq(w, m + 1, Len(w)))
       IN left \o [i \in 1..Len(right) |-> right[i] + left[m]]

\* for each position of s: whether the atom stands outside every string (a
\* quote never does), and the bracket depth after it
Scan(s) ==
  LET quotes == PrefixSums([i \in 1..Len(s) |-> IF s[i] = Q THEN 1 ELSE 0])
      outside == [i \in 1..Len(s) |-> s[i] # Q /\ quotes[i] % 2 = 0]
      step == [i \in 1..Len(s) |->
                 IF ~outside[i] THEN 0
                 ELSE IF s[i] \in {"{", "["} THEN 1
                 ELSE IF s[i] \in {"}", "]"} THEN -1 ELSE 0]
  IN [s |-> s, outside |-> outside, depth |-> PrefixSums(step)]

\* the first position in l..r that holds no white space, or r + 1
RECURSIVE SkipWs(_, _, _)
SkipWs(s, l, r) == IF l <= r /\ s[l] \in WsAtoms THEN SkipWs(s, l + 1, r) ELSE l

\* the last position in l..r that holds no white space, or l - 1
RECURSIVE SkipWsBack(_, _, _)
SkipWsBack(s, l, r) == IF l <= r /\ s[r] \in WsAtoms THEN SkipWsBack(s, l, r - 1) ELSE r

\* the position of the first quote in l..r, or 0
RECURSIVE FindQuote(_, _, _)
FindQuote(s, l, r) == IF l > r THEN 0
                      ELSE IF s[l] = Q THEN l ELSE FindQuote(s, l + 1, r)

\* the number written by the digits at l..r
RECURSIVE ParseDigits(_, _, _)
ParseDigits(s, l, r) ==
  IF l > r THEN 0 ELSE ParseDigits(s, l, r - 1) * 10 + DigitValue(s[r])

\* the bracket at l is closed by the bracket at r
Closes(T, l, r) ==
  /\ T.outside[l] /\ T.outside[r]
  /\ T.depth[r] = T.depth[l] - 1
  /\ \A p \in l..(r - 1) : T.depth[p] >= T.depth[l]

\* the positions of the commas of the container that opens at l and closes
\* at r, with l before and r after them: the items lie in between
Cuts(T, l, r) ==
  <<l>>
  \o SelectSeq([i \in 1..(r - l - 1) |-> l + i],
               LAMBDA p : T.s[p] = "," /\ T.outside[p] /\ T.depth[p] = T.depth[l])
  \o <<r>>

\* the object of the parsed members ms (\o <<>> has TLC compute a sequence once)
ObjectOf(ms) ==
  IF \E k \in 1..Len(ms) : ~ms[k].ok \/ ~ms[k].v.ok THEN ParseFail
  ELSE ParseOk(JObj(AssignAll(<<>>, [k \in 1..Len(ms) |-> [k |-> ms[k].k, v |-> ms[k].v.v]]
                                      \o <<>>)))

\* the array of the parsed elements es
ArrayOf(es) ==
  IF \E k \in 1..Len(es) : ~es[k].ok THEN ParseFail
  ELSE ParseOk(JArr([k \in 1..Len(es) |-> es[k].v] \o <<>>))

\* the start marker phrase with its first character written as an escape
ESCAPED_START_MARKER == "\\u0021!!_START_OF_TLDRAW_DATA__DO_NOT_CHANGE_THIS_PHRASE_!!!"

\* the characters of a string literal: an escape sequence stands for its character
Unescape(s) ==
  [i \in 1..Len(s) |-> IF s[i] = ESCAPED_START_MARKER THEN MARKDOWN_TLDRAW_START_MARKER[1]
                       ELSE s[i]] \o <<>>

RECURSIVE ParseRange(_, _, _)
\* one member in a..b: "key" : value
ParseMember(T, a, b) ==
  LET open == SkipWs(T.s, a, b)
      close == IF open <= b /\ T.s[open] = Q THEN FindQuote(T.s, open + 1, b) ELSE 0
      colon == SkipWs(T.s, close + 1, b)
  IN IF close # 0 /\ colon <= b /\ T.s[colon] = ":"
     THEN [ok |-> TRUE, k |-> SubSeq(T.s, open + 1, close - 1),
           v |-> ParseRange(T, colon + 1, b)]
     ELSE [ok |-> FALSE]

\* the value that fills l0..r0, white space around it aside
ParseRange(T, l0, r0) ==
  LET l == SkipWs(T.s, l0, r0)
      r == SkipWsBack(T.s, l, r0)
      open == IF l > r THEN "" ELSE T.s[l]
      cuts == Cuts(T, l, r)
  IN CASE open = "{" ->
            IF ~(l < r /\ T.s[r] = "}" /\ Closes(T, l, r)) THEN ParseFail
            ELSE IF SkipWs(T.s, l + 1, r - 1) = r THEN ParseOk(JObj(<<>>))
            ELSE ObjectOf([k \in 1..(Len(cuts) - 1) |->
                             ParseMember(T, cuts[k] + 1, cuts[k + 1] - 1)] \o <<>>)
       [] open = "[" ->
            IF ~(l < r /\ T.s[r] = "]" /\ Closes(T, l, r)) THEN ParseFail
            ELSE IF SkipWs(T.s, l + 1, r - 1) = r THEN ParseOk(JArr(<<>>))
            ELSE ArrayOf([k \in 1..(Len(cuts) - 1) |->
                            ParseRange(T, cuts[k] + 1, cuts[k + 1] - 1)] \o <<>>)
       [] open = Q ->
            IF l < r /\ FindQuote(T.s, l + 1, r) = r
            THEN ParseOk(JStr(Unescape(SubSeq(T.s, l + 1, r - 1)))) ELSE ParseFail
       [] open = "null" /\ l = r -> ParseOk(JNull)
       [] open = "true" /\ l = r -> ParseOk(JBool(TRUE))
       [] open = "false" /\ l = r -> ParseOk(JBool(FALSE))
       [] IsDigit(open) ->
            IF (\A p \in l..r : IsDigit(T.s[p])) /\ (l = r \/ open # "0")
            THEN ParseOk(JNum(ParseDigits(T.s, l, r))) ELSE ParseFail
       [] OTHER -> ParseFail

\* JSON.parse(text): one value and nothing but white space around it
JsonParse(s) == ParseRange(Scan(s), 1, Len(s))

(***************************************************************************)
(* Paths (node:path, POSIX): a path is a text whose separator is the atom  *)
(* "/"; "." is one atom, so ".." is two.                                   *)
(***************************************************************************)
SEP == <<"/">>
DOT == <<".">>
DOTDOT == <<".", ".">>

\* the configured root directory
TLDRAW_DIR == <<"/", "r">>

IsAbsolute(p) == StartsWith(p, SEP)

\* the segments of p between separators, empty ones dropped
RECURSIVE SplitPath(_, _, _)
SplitPath(p, cur, acc) ==
  IF p = <<>> THEN (IF cur = <<>> THEN acc ELSE Append(acc, cur))
  ELSE IF <<Head(p)>> = SEP
       THEN SplitPath(Tail(p), <<>>, IF cur = <<>> THEN acc ELSE Append(acc, cur))
       ELSE SplitPath(Tail(p), Append(cur, Head(p)), acc)

Segments(p) == SplitPath(p, <<>>, <<>>)

\* "." dropped, ".." removes the segment before it (nothing above the root)
RECURSIVE NormalizeSegments(_, _)
NormalizeSegments(segs, acc) ==
  IF segs = <<>> THEN acc
  ELSE IF Head(segs) = DOT THEN NormalizeSegments(Tail(segs), acc)
  ELSE IF Head(segs) = DOTDOT
       THEN NormalizeSegments(Tail(segs),
                              IF acc = <<>> THEN acc ELSE SubSeq(acc, 1, Len(acc) - 1))
  ELSE NormalizeSegments(Tail(segs), Append(acc, Head(segs)))

\* the absolute path of normalized segments
AbsoluteOf(segs) == IF segs = <<>> THEN SEP ELSE SEP \o JoinWith(segs, SEP)

\* resolve(base, p), base absolute
Resolve(base, p) ==
  AbsoluteOf(NormalizeSegments(
    IF IsAbsolute(p) THEN Segments(p) ELSE Segments(base) \o Segments(p), <<>>))

\* join(dir, name), dir absolute
Join(dir, name) == AbsoluteOf(NormalizeSegments(Segments(dir) \o Segments(name), <<>>))

RECURSIVE CommonPrefixLen(_, _)
CommonPrefixLen(a, b) ==
  IF a # <<>> /\ b # <<>> /\ Head(a) = Head(b) THEN 1 + CommonPrefixLen(Tail(a), Tail(b))
  ELSE 0

\* relative(from, to) from the segments a of from and b of to
RelativeOf(a, b, n) == JoinWith([i \in 1..(Len(a) - n) |-> DOTDOT] \o SubSeq(b, n + 1, Len(b)), SEP)

RelativeSegments(a, b) == RelativeOf(a, b, CommonPrefixLen(a, b))

\* relative(from, to), both absolute and normalized
Relative(from, to) == RelativeSegments(Segments(from), Segments(to))

\* a result that failed with error e
Err(e) == [ok |-> FALSE, err |-> e]

\* resolve(TLDRAW_DIR)
BaseDir == Resolve(TLDRAW_DIR, <<>>)

\* the path the input names: as given when absolute, under the root otherwise
TargetPath(inputPath) ==
  IF IsAbsolute(inputPath) THEN Resolve(SEP, inputPath) ELSE Resolve(BaseDir, inputPath)

\* relativePath.startsWith('..') || isAbsolute(relativePath)
Escapes(relativePath) == StartsWith(relativePath, DOTDOT) \/ IsAbsolute(relativePath)

SecureTargetUnchecked(inputPath, targetPath) ==
  [ok |-> TRUE, err |-> "", path |-> targetPath]

SecureTarget(inputPath, targetPath) ==
  IF ~IsAbsolute(inputPath) /\ Escapes(Relative(BaseDir, targetPath))
  THEN Err("PathTraversal")
  ELSE [ok |-> TRUE, err |-> "", path |-> targetPath]

securePath(inputPath) == SecureTarget(inputPath, TargetPath(inputPath))

isReadableTldrawPath(path) == EndsWith(path, <<".tldr">>) \/ EndsWith(path, <<".md">>)

\* existsSync(path) on file system f
existsSync(f, path) == path \in DOMAIN f

\* file system f after writeFile(path, text)
writeFile(f, path, text) ==
  [q \in (DOMAIN f) \cup {path} |-> IF q = path THEN text ELSE f[q]]

(***************************************************************************)
(* Validation and decoding                                                 *)
(***************************************************************************)
\* what the loop over the records throws: reading .id of a null record is a
\* TypeError, a record without id or typeName is refused; "" when none is
RecordError(records) ==
  LET bad == {i \in 1..Len(records) :
                \/ records[i].t = "null"
                \/ ~Truthy(Get(records[i], "id"))
                \/ ~Truthy(Get(records[i], "typeName"))}
  IN IF bad = {} THEN ""
     ELSE IF records[CHOOSE i \in bad : \A j \in bad : i <= j].t = "null" THEN "TypeError"
     ELSE "InvalidDocument"

validateAnything(data) == [ok |-> TRUE, err |-> "", file |-> data]

validateTldrawFile(data) ==
  IF ~Truthy(data) \/ ~TypeofObject(data) THEN Err("InvalidDocument")
  ELSE IF Get(data, "tldrawFileFormatVersion").t # "num" THEN Err("InvalidDocument")
  ELSE IF ~Truthy(Get(data, "schema")) \/ ~TypeofObject(Get(data, "schema"))
       THEN Err("InvalidDocument")
  ELSE IF Get(data, "records").t # "arr" THEN Err("InvalidDocument")
  ELSE IF RecordError(Get(data, "records").v) # ""
       THEN Err(RecordError(Get(data, "records").v))
  ELSE [ok |-> TRUE, err |-> "", file |-> data]

\* JSON.parse(content), a failure reported as invalid JSON
parseJsonContent(content) == JsonParse(content)

\* the block between a start marker at startIndex and an end marker at endIndex
LocateBetween(markdown, startIndex, endIndex) ==
  LET startLen == Len(MARKDOWN_TLDRAW_START_MARKER)
      endLen == Len(MARKDOWN_TLDRAW_END_MARKER)
      jsonStart == startIndex + startLen
      jsonEnd == endIndex
  IN IF startIndex = -1 THEN Err("MissingBlock")
     ELSE IF IndexOf(markdown, MARKDOWN_TLDRAW_START_MARKER, startIndex + startLen) # -1
          THEN Err("DuplicateBlock")
     ELSE IF endIndex = -1 THEN Err("MissingBlock")
     ELSE IF IndexOf(markdown, MARKDOWN_TLDRAW_END_MARKER, endIndex + endLen) # -1
          THEN Err("DuplicateBlock")
     ELSE IF Trim(Slice(markdown, jsonStart, jsonEnd)) = <<>> THEN Err("EmptyBlock")
     ELSE [ok |-> TRUE, err |-> "", jsonStart |-> jsonStart, jsonEnd |-> jsonEnd,
           jsonText |-> Trim(Slice(markdown, jsonStart, jsonEnd))]

LocateFrom(markdown, startIndex) ==
  LocateBetween(markdown, startIndex,
                IF startIndex = -1 THEN -1
                ELSE IndexOf(markdown, MARKDOWN_TLDRAW_END_MARKER,
                             startIndex + Len(MARKDOWN_TLDRAW_START_MARKER)))

locateMarkdownTldrawBlock(markdown) ==
  LocateFrom(markdown, IndexOf(markdown, MARKDOWN_TLDRAW_START_MARKER, 0))

\* the validated document v together with the container it came in
Normalized(v, container) ==
  IF v.ok THEN [ok |-> TRUE, err |-> "", file |-> v.file, wrappedContainer |-> container]
  ELSE v

normalizeTldrawPayload(data) ==
  IF ~Truthy(data) \/ ~TypeofObject(data) THEN Err("InvalidDocument")
  ELSE IF HasKey(data, "raw")
       THEN IF ~Truthy(Get(data, "raw")) \/ ~TypeofObject(Get(data, "raw"))
            THEN Err("InvalidWrappedDocument")
            ELSE Normalized(validateTldrawFile(Get(data, "raw")), data)
  ELSE Normalized(validateTldrawFile(data), JUndef)

\* the normalized payload n with the storage format of the file it came from
Labelled(n, embedded) ==
  IF ~n.ok THEN n
  ELSE [ok |-> TRUE, err |-> "", file |-> n.file,
        storageFormat |-> IF embedded THEN "embedded-markdown"
                          ELSE IF Truthy(n.wrappedContainer) THEN "wrapped-json"
                          ELSE "plain-json",
        wrappedContainer |-> n.wrappedContainer]

\* normalizeTldrawPayload of what was parsed, if it was
NormalizedPayload(data) == IF ~data.ok THEN data ELSE normalizeTldrawPayload(data.v)

DecodePayload(data, embedded) == Labelled(NormalizedPayload(data), embedded)

DecodeBlock(block) ==
  IF ~block.ok THEN block ELSE DecodePayload(parseJsonContent(block.jsonText), TRUE)

\* the decoding of the text of a file at filepath (parseTldrawContent after
\* the file is read)
DecodeText(filepath, content) ==
  IF EndsWith(filepath, <<".md">>)
  THEN DecodeBlock(locateMarkdownTldrawBlock(content))
  ELSE DecodePayload(parseJsonContent(content), FALSE)

\* parseTldrawContent once the path is resolved
DecodeSecured(f, sp) ==
  IF ~sp.ok THEN sp
  ELSE IF ~isReadableTldrawPath(sp.path) THEN Err("UnsupportedExtension")
  ELSE IF ~existsSync(f, sp.path) THEN Err("NotFound")
  ELSE DecodeText(sp.path, f[sp.path])

parseTldrawContent(f, path) == DecodeSecured(f, securePath(path))

\* the container of the parsed text of an existing file, if it is one
ContainerOf(existingData) ==
  IF /\ existingData.ok
     /\ Truthy(existingData.v)
     /\ TypeofObject(existingData.v)
     /\ HasKey(existingData.v, "raw")
     /\ TypeofObject(Get(existingData.v, "raw"))
  THEN existingData.v
  ELSE JUndef

getWrappedContainerForTldraw(f, filepath) ==
  IF ~existsSync(f, filepath) THEN JUndef
  ELSE ContainerOf(parseJsonContent(f[filepath]))

tldrawRead(f, path) == parseTldrawContent(f, path)

\* the files a decode looks at (none when the path is refused first)
TouchedBy(sp) == IF sp.ok /\ isReadableTldrawPath(sp.path) THEN {sp.path} ELSE {}

ReadTouched(path) == TouchedBy(securePath(path))

(***************************************************************************)
(* Document factory and text extraction                                    *)
(***************************************************************************)
TLDRAW_FILE_FORMAT_VERSION == 1
SCHEMA_VERSION == 2

\* crypto.randomUUID().slice(0, 8): one of a few identifiers
UUIDs == {<<"u1">>, <<"u2">>}

SchemaSequences ==
  JObj(<<Mem("com.tldraw.store", JNum(4)), Mem("com.tldraw.asset", JNum(1)),
         Mem("com.tldraw.camera", JNum(1)), Mem("com.tldraw.document", JNum(2)),
         Mem("com.tldraw.instance", JNum(25)),
         Mem("com.tldraw.instance_page_state", JNum(5)),
         Mem("com.tldraw.page", JNum(1)), Mem("com.tldraw.pointer", JNum(1)),
         Mem("com.tldraw.shape", JNum(4)), Mem("com.tldraw.shape.geo", JNum(10)),
         Mem("com.tldraw.shape.text", JNum(3)), Mem("com.tldraw.shape.note", JNum(9)),
         Mem("com.tldraw.shape.arrow", JNum(6))>>)

createEmptyTldrawFileNoRecords(name, uuid) ==
  JObj(<<Mem("tldrawFileFormatVersion", JNum(TLDRAW_FILE_FORMAT_VERSION)),
         Mem("schema", JObj(<<Mem("schemaVersion", JNum(SCHEMA_VERSION))>>)),
         Mem("records", JArr(<<>>))>>)

createEmptyTldrawFile(name, uuid) ==
  LET pageId == <<"page:">> \o uuid
  IN JObj(<<
       Mem("tldrawFileFormatVersion", JNum(TLDRAW_FILE_FORMAT_VERSION)),
       Mem("schema", JObj(<<Mem("schemaVersion", JNum(SCHEMA_VERSION)),
                            Mem("sequences", SchemaSequences)>>)),
       Mem("records", JArr(<<
         JObj(<<Mem("id", JStr(<<"document:document">>)),
                Mem("typeName", JStr(<<"document">>)),
                Mem("gridSize", JNum(10)),
                Mem("name", JStr(name)),
                Mem("meta", JObj(<<>>))>>),
         JObj(<<Mem("id", JStr(pageId)),
                Mem("typeName", JStr(<<"page">>)),
                Mem("name", JStr(<<"Page 1">>)),
                Mem("index", JStr(<<"a", "1">>)),
                Mem("meta", JObj(<<>>))>>),
         JObj(<<Mem("id", JStr(<<"instance_page_state:">> \o pageId)),
                Mem("typeName", JStr(<<"instance_page_state">>)),
                Mem("pageId", JStr(pageId)),
                Mem("selectedShapeIds", JArr(<<>>)),
                Mem("hintingShapeIds", JArr(<<>>)),
                Mem("erasingShapeIds", JArr(<<>>)),
                Mem("hoveredShapeId", JNull),
                Mem("editingShapeId", JNull),
                Mem("croppingShapeId", JNull),
                Mem("focusedGroupId", JNull),
                Mem("meta", JObj(<<>>))>>),
         JObj(<<Mem("id", JStr(<<"camera:">> \o pageId)),
                Mem("typeName", JStr(<<"camera">>)),
                Mem("x", JNum(0)),
                Mem("y", JNum(0)),
                Mem("z", JNum(1)),
                Mem("meta", JObj(<<>>))>>)>>))>>)

\* the texts of the inline nodes of one block
RECURSIVE InlineTexts(_)
InlineTexts(inlines) ==
  IF inlines = <<>> THEN <<>>
  ELSE LET inline == Head(inlines)
       IN (IF Truthy(inline) /\ TypeofObject(inline) /\ Get(inline, "text").t = "str"
           THEN <<Get(inline, "text").v>> ELSE <<>>)
          \o InlineTexts(Tail(inlines))

RECURSIVE BlockTexts(_)
BlockTexts(blocks) ==
  IF blocks = <<>> THEN <<>>
  ELSE LET block == Head(blocks)
       IN (IF Truthy(block) /\ TypeofObject(block) /\ Get(block, "content").t = "arr"
           THEN InlineTexts(Get(block, "content").v) ELSE <<>>)
          \o BlockTexts(Tail(blocks))

extractText(richText) ==
  IF ~Truthy(richText) \/ ~TypeofObject(richText) THEN <<>>
  ELSE IF Get(richText, "content").t # "arr" THEN <<>>
  ELSE JoinWith(BlockTexts(Get(richText, "content").v), <<SP>>)

(***************************************************************************)
(* Tool implementations.  Each takes the file system f and returns its     *)
(* outcome, the file system after it and the paths it touched.             *)
(***************************************************************************)
FailTruncating(e, f, t) ==
  [ok |-> FALSE, err |-> e, fs |-> [p \in DOMAIN f |-> IF p \in t THEN <<>> ELSE f[p]],
   touched |-> t]

\* a failure that leaves f as it is, having touched the paths t
Fail(e, f, t) == [ok |-> FALSE, err |-> e, fs |-> f, touched |-> t]

\* filepath.substring(0, filepath.lastIndexOf('/'))
DirOf(filepath) ==
  LET seps == {i \in 1..Len(filepath) : <<filepath[i]>> = SEP}
  IN IF seps = {} THEN <<>>
     ELSE SubSeq(filepath, 1, (CHOOSE i \in seps : \A j \in seps : j <= i) - 1)

\* what is written for a document and the container in force
OutputContent(wrappedContainer, file) ==
  IF Truthy(wrappedContainer) THEN Set(wrappedContainer, "raw", file) ELSE file

EffectiveContainerInputFirst(existingWrappedContainer, inputWrappedContainer) ==
  JsOr(inputWrappedContainer, existingWrappedContainer)

\* existingWrappedContainer || inputWrappedContainer
EffectiveContainer(existingWrappedContainer, inputWrappedContainer) ==
  JsOr(existingWrappedContainer, inputWrappedContainer)

SpliceMarkdownShort(markdownContent, block, outputContent) ==
  Slice(markdownContent, 0, block.jsonStart - 1) \o <<NL>> \o Stringify(outputContent)
    \o <<NL>> \o SliceFrom(markdownContent, block.jsonEnd)

\* the markdown with the text between the markers replaced
SpliceMarkdown(markdownContent, block, outputContent) ==
  Slice(markdownContent, 0, block.jsonStart) \o <<NL>> \o Stringify(outputContent)
    \o <<NL>> \o SliceFrom(markdownContent, block.jsonEnd)

\* the input of a write: parsed when it is a string, then normalized
InputPayload(content) ==
  NormalizedPayload(IF content.t = "str" THEN parseJsonContent(content.v)
                    ELSE ParseOk(content))

WritePlainUnwritten(f, filepath, file, wrappedContainer) ==
  [ok |-> TRUE, err |-> "", fs |-> f, touched |-> {DirOf(filepath), filepath}]

\* the .tldr branch: the parent directory is made, the file written
WritePlain(f, filepath, file, wrappedContainer) ==
  [ok |-> TRUE, err |-> "",
   fs |-> writeFile(f, filepath, Stringify(OutputContent(wrappedContainer, file))),
   touched |-> {DirOf(filepath), filepath}]

\* the .md branch once the payload between the markers is decoded
WriteBlock(f, filepath, input, block, existing) ==
  IF ~existing.ok THEN Fail(existing.err, f, {filepath})
  ELSE [ok |-> TRUE, err |-> "",
        fs |-> writeFile(f, filepath,
                 SpliceMarkdown(f[filepath], block,
                   OutputContent(EffectiveContainer(existing.wrappedContainer,
                                                    input.wrappedContainer),
                                 input.file))),
        touched |-> {filepath}]

\* the .md branch once the block is located
WriteMarkdown(f, filepath, input, block) ==
  IF ~block.ok THEN Fail(block.err, f, {filepath})
  ELSE WriteBlock(f, filepath, input, block,
                  NormalizedPayload(parseJsonContent(block.jsonText)))

WriteInputCreating(f, filepath, input) ==
  IF ~input.ok THEN Fail(input.err, f, {})
  ELSE WritePlain(f, filepath, input.file, input.wrappedContainer)

\* tldrawWrite once the input is normalized
WriteInput(f, filepath, input) ==
  IF ~input.ok THEN Fail(input.err, f, {})
  ELSE IF EndsWith(filepath, <<".md">>)
       THEN IF ~existsSync(f, filepath) THEN Fail("NotFound", f, {filepath})
            ELSE WriteMarkdown(f, filepath, input, locateMarkdownTldrawBlock(f[filepath]))
  ELSE WritePlain(f, filepath, input.file,
                  EffectiveContainer(getWrappedContainerForTldraw(f, filepath),
                                     input.wrappedContainer))

\* tldrawWrite once the path is resolved
WriteSecured(f, content, sp) ==
  IF ~sp.ok THEN Fail(sp.err, f, {})
  ELSE IF ~isReadableTldrawPath(sp.path) THEN Fail("UnsupportedExtension", f, {})
  ELSE WriteInput(f, sp.path, InputPayload(content))

tldrawWrite(f, path, content) == WriteSecured(f, content, securePath(path))

\* records.filter(r => r.typeName === tag)
FilterTypeName(records, tag) ==
  SelectSeq(records, LAMBDA r : StrictEq(Get(r, "typeName"), JStr(tag)))

\* records.filter(r => r[key] === value)
FilterFieldEq(records, key, value) ==
  SelectSeq(records, LAMBDA r : StrictEq(Get(r, key), value))

\* a filter that keeps every record that is not a shape
FilterShapeIdNot(records, shapeId) ==
  SelectSeq(records, LAMBDA r : ~StrictEq(Get(r, "id"), shapeId)
                                  \/ ~StrictEq(Get(r, "typeName"), JStr(<<"shape">>)))

\* records.filter(r => r.id !== shapeId)
FilterIdNot(records, shapeId) ==
  SelectSeq(records, LAMBDA r : ~StrictEq(Get(r, "id"), shapeId))

\* records.findIndex(r => r.id === shapeId), 1-based, 0 when there is none
FindIndexById(records, shapeId) ==
  LET hits == {i \in 1..Len(records) : StrictEq(Get(records[i], "id"), shapeId)}
  IN IF hits = {} THEN 0 ELSE CHOOSE i \in hits : \A j \in hits : i <= j

Records(file) == Get(file, "records").v

\* the shapes, those of page pageId when one is given
PageShapes(shapes, pageId) ==
  IF Truthy(pageId) THEN FilterFieldEq(shapes, "parentId", pageId) ELSE shapes

\* tldrawGetShapes once the file is read
ShapesOf(r, pageId) ==
  IF ~r.ok THEN r
  ELSE [ok |-> TRUE, err |-> "",
        shapes |-> PageShapes(FilterTypeName(Records(r.file), <<"shape">>), pageId)]

tldrawGetShapes(f, path, pageId) == ShapesOf(tldrawRead(f, path), pageId)

DefaultProps ==
  JObj(<<Mem("w", JNum(100)), Mem("h", JNum(100)), Mem("geo", JStr(<<"rectangle">>)),
         Mem("color", JStr(<<"black">>)), Mem("labelColor", JStr(<<"black">>)),
         Mem("fill", JStr(<<"none">>)), Mem("dash", JStr(<<"draw">>)),
         Mem("size", JStr(<<"m">>)), Mem("font", JStr(<<"draw">>)),
         Mem("align", JStr(<<"middle">>)), Mem("verticalAlign", JStr(<<"middle">>)),
         Mem("growY", JNum(0)), Mem("url", JStr(<<>>)), Mem("scale", JNum(1)),
         Mem("richText", JObj(<<Mem("type", JStr(<<"doc">>)),
                                Mem("content", JArr(<<>>))>>))>>)

\* a record without a parent
NewShapeOrphan(shape, shapeId, targetPageId, shapeCount) ==
  JObj(<<Mem("id", shapeId),
         Mem("typeName", JStr(<<"shape">>)),
         Mem("type", JsOr(Get(shape, "type"), JStr(<<"geo">>))),
         Mem("x", JsOr(Get(shape, "x"), JNum(0))),
         Mem("y", JsOr(Get(shape, "y"), JNum(0))),
         Mem("rotation", JsOr(Get(shape, "rotation"), JNum(0))),
         Mem("isLocked", JBool(FALSE)),
         Mem("opacity", JNum(1)),
         Mem("index", JStr(<<"a">> \o NumText(shapeCount + 1))),
         Mem("meta", JObj(<<>>)),
         Mem("props", JsOr(Get(shape, "props"), DefaultProps))>>)

\* the record add-shape builds
NewShape(shape, shapeId, targetPageId, shapeCount) ==
  JObj(<<Mem("id", shapeId),
         Mem("typeName", JStr(<<"shape">>)),
         Mem("type", JsOr(Get(shape, "type"), JStr(<<"geo">>))),
         Mem("x", JsOr(Get(shape, "x"), JNum(0))),
         Mem("y", JsOr(Get(shape, "y"), JNum(0))),
         Mem("rotation", JsOr(Get(shape, "rotation"), JNum(0))),
         Mem("isLocked", JBool(FALSE)),
         Mem("opacity", JNum(1)),
         Mem("parentId", targetPageId),
         Mem("index", JStr(<<"a">> \o NumText(shapeCount + 1))),
         Mem("meta", JObj(<<>>)),
         Mem("props", JsOr(Get(shape, "props"), DefaultProps))>>)

\* file.records.push(record)
AppendRecord(file, record) == Set(file, "records", JArr(Append(Records(file), record)))

\* the outcome of add-shape: the identifier when the write went through
Added(w, shapeId) ==
  IF w.ok THEN [ok |-> TRUE, err |-> "", fs |-> w.fs, touched |-> w.touched,
                shapeId |-> shapeId]
  ELSE w

\* tldrawAddShape once the page and the identifier are chosen
AddShapeWith(f, path, file, shape, shapeId, targetPageId) ==
  Added(tldrawWrite(f, path,
          AppendRecord(file, NewShape(shape, shapeId, targetPageId,
                                      Len(FilterTypeName(Records(file), <<"shape">>))))),
        shapeId)

AddShapeToFirstPage(f, path, shape, pageId, uuid, r) ==
  IF ~r.ok THEN Fail(r.err, f, ReadTouched(path))
  ELSE IF FilterTypeName(Records(r.file), <<"page">>) = <<>>
       THEN Fail("NoPages", f, ReadTouched(path))
  ELSE AddShapeWith(f, path, r.file, shape,
                    JsOr(Get(shape, "id"), JStr(<<"shape:">> \o uuid)),
                    Get(FilterTypeName(Records(r.file), <<"page">>)[1], "id"))

\* tldrawAddShape once the file is read
AddShapeTo(f, path, shape, pageId, uuid, r) ==
  IF ~r.ok THEN Fail(r.err, f, ReadTouched(path))
  ELSE IF ~Truthy(pageId) /\ FilterTypeName(Records(r.file), <<"page">>) = <<>>
       THEN Fail("NoPages", f, ReadTouched(path))
  ELSE AddShapeWith(f, path, r.file, shape,
                    JsOr(Get(shape, "id"), JStr(<<"shape:">> \o uuid)),
                    IF Truthy(pageId) THEN pageId
                    ELSE Get(FilterTypeName(Records(r.file), <<"page">>)[1], "id"))

\* the document tldrawAddShape hands to tldrawWrite, from the outcome r of its read
AddShapePlan(shape, pageId, uuid, r) ==
  IF ~r.ok THEN [ok |-> FALSE, err |-> r.err, file |-> JUndef]
  ELSE IF ~Truthy(pageId) /\ FilterTypeName(Records(r.file), <<"page">>) = <<>>
       THEN [ok |-> FALSE, err |-> "NoPages", file |-> JUndef]
  ELSE [ok |-> TRUE, err |-> "",
        file |-> AppendRecord(r.file,
                   NewShape(shape, JsOr(Get(shape, "id"), JStr(<<"shape:">> \o uuid)),
                            IF Truthy(pageId) THEN pageId
                            ELSE Get(FilterTypeName(Records(r.file), <<"page">>)[1], "id"),
                            Len(FilterTypeName(Records(r.file), <<"shape">>))))]

tldrawAddShape(f, path, shape, pageId, uuid) ==
  AddShapeTo(f, path, shape, pageId, uuid, tldrawRead(f, path))

\* the shape argument as the schema of the tool parses it: the keys it does not name
\* are stripped
AddShapeSchema(shape) ==
  JObj(SelectSeq(Members(shape),
                 LAMBDA m : m.k \in {<<"type">>, <<"x">>, <<"y">>, <<"props">>}))

ApplyUpdateNoMerge(shape, key, value) == JObj(SetMember(Members(shape), key, value))

\* one entry of updates applied to the record
ApplyUpdate(shape, key, value) ==
  IF key = <<"props">> /\ TypeofObject(value) /\ Truthy(Get(shape, "props"))
  THEN Set(shape, "props", Spread(Get(shape, "props"), value))
  ELSE JObj(SetMember(Members(shape), key, value))

RECURSIVE ApplyUpdates(_, _)
ApplyUpdates(shape, entries) ==
  IF entries = <<>> THEN shape
  ELSE ApplyUpdates(ApplyUpdate(shape, Head(entries).k, Head(entries).v), Tail(entries))

\* tldrawUpdateShape once the record is found
UpdateAt(f, path, file, updates, shapeIndex) ==
  IF shapeIndex = 0 THEN Fail("ShapeNotFound", f, ReadTouched(path))
  ELSE tldrawWrite(f, path,
         Set(file, "records",
             JArr([Records(file) EXCEPT ![shapeIndex] = ApplyUpdates(@, Members(updates))])))

\* tldrawUpdateShape once the file is read
UpdateIn(f, path, shapeId, updates, r) ==
  IF ~r.ok THEN Fail(r.err, f, ReadTouched(path))
  ELSE UpdateAt(f, path, r.file, updates, FindIndexById(Records(r.file), shapeId))

tldrawUpdateShape(f, path, shapeId, updates) ==
  UpdateIn(f, path, shapeId, updates, tldrawRead(f, path))

DeleteKeptUnguarded(f, path, file, kept) ==
  tldrawWrite(f, path, Set(file, "records", JArr(kept)))

\* tldrawDeleteShape once the records are filtered
DeleteKept(f, path, file, kept) ==
  IF Len(kept) = Len(Records(file)) THEN Fail("ShapeNotFound", f, ReadTouched(path))
  ELSE tldrawWrite(f, path, Set(file, "records", JArr(kept)))

\* tldrawDeleteShape once the file is read
DeleteIn(f, path, shapeId, r) ==
  IF ~r.ok THEN Fail(r.err, f, ReadTouched(path))
  ELSE DeleteKept(f, path, r.file, FilterIdNot(Records(r.file), shapeId))

tldrawDeleteShape(f, path, shapeId) == DeleteIn(f, path, shapeId, tldrawRead(f, path))

\* name || path.replace('.tldr', '')
DocumentName(path, name) == JsOr(name, JStr(ReplaceFirst(path, <<".tldr">>))).v

CreateSecuredNoGuard(f, path, name, uuid, sp) ==
  IF ~sp.ok THEN Fail(sp.err, f, {})
  ELSE tldrawWrite(f, path, createEmptyTldrawFile(DocumentName(path, name), uuid))

\* tldrawCreateFile once the path is resolved
CreateSecured(f, path, name, uuid, sp) ==
  IF ~sp.ok THEN Fail(sp.err, f, {})
  ELSE IF existsSync(f, sp.path) THEN Fail("AlreadyExists", f, {sp.path})
  ELSE tldrawWrite(f, path, createEmptyTldrawFile(DocumentName(path, name), uuid))

tldrawCreateFile(f, path, name, uuid) == CreateSecured(f, path, name, uuid, securePath(path))
(***************************************************************************)
(* Corpus operations                                                       *)
(***************************************************************************)
IsPrefix(a, b) == Len(a) <= Len(b) /\ SubSeq(b, 1, Len(a)) = a

\* whether path p lies in directory dir or below it
IsUnder(p, dir) == IsPrefix(Segments(dir), Segments(p)) /\ Segments(p) # Segments(dir)

RECURSIVE SetToSeq(_)
SetToSeq(S) == IF S = {} THEN <<>>
               ELSE LET x == CHOOSE x \in S : TRUE IN <<x>> \o SetToSeq(S \ {x})

\* readdir(dir, {withFileTypes: true}): the entries of dir, in some order
readdir(f, dir) ==
  LET depth == Len(Segments(dir))
      names == {Segments(p)[depth + 1] : p \in {q \in DOMAIN f : IsUnder(q, dir)}}
  IN SetToSeq({[name |-> n,
                isFile |-> Join(dir, n) \in DOMAIN f,
                isDirectory |-> \E q \in DOMAIN f : IsUnder(q, Join(dir, n))]
               : n \in names})

\* entry.name.replace(/\.(tldr|md)$/i, '')
DisplayName(name) ==
  IF name # <<>> /\ name[Len(name)] \in {".tldr", ".md"} THEN SubSeq(name, 1, Len(name) - 1)
  ELSE name

\* relative(TLDRAW_DIR, fullPath) || fullPath
ListedPath(relativePath, fullPath) == IF relativePath # <<>> THEN relativePath ELSE fullPath

FileInfo(name, fullPath, file) ==
  [name |-> DisplayName(name),
   path |-> ListedPath(Relative(TLDRAW_DIR, fullPath), fullPath),
   pageCount |-> Len(FilterTypeName(Records(file), <<"page">>)),
   shapeCount |-> Len(FilterTypeName(Records(file), <<"shape">>))]

\* the entry of a file that was parsed; a file that was not is skipped
Listed(name, fullPath, parsed) ==
  IF parsed.ok THEN <<FileInfo(name, fullPath, parsed.file)>> ELSE <<>>

RECURSIVE scanDir(_, _, _)
\* one iteration of the loop over the entries of dir
ScanEntry(f, dir, entry, recursive) ==
  IF entry.isDirectory /\ recursive THEN scanDir(f, Join(dir, entry.name), recursive)
  ELSE IF entry.isFile /\ isReadableTldrawPath(entry.name)
  THEN Listed(entry.name, Join(dir, entry.name),
              parseTldrawContent(f, Join(dir, entry.name)))
  ELSE <<>>

ScanEntries(f, dir, entries, recursive) ==
  Flatten([k \in 1..Len(entries) |-> ScanEntry(f, dir, entries[k], recursive)])

scanDir(f, dir, recursive) == ScanEntries(f, dir, readdir(f, dir), recursive)

tldrawList(f, recursive) == scanDir(f, TLDRAW_DIR, recursive)

\* pageNames.get(id): the name the last page record of that identity set
PageName(records, id) ==
  LET hits == {i \in 1..Len(records) :
                 /\ StrictEq(Get(records[i], "typeName"), JStr(<<"page">>))
                 /\ StrictEq(Get(records[i], "id"), id)}
  IN IF hits = {} THEN JUndef
     ELSE JsOr(Get(records[CHOOSE i \in hits : \A j \in hits : j <= i], "name"),
               JStr(<<"Untitled">>))

\* x?.method(...) on a value that is no string: undefined for null and
\* undefined, a TypeError for anything else
NotCallable(x) == x.t \notin {"undef", "null", "str"}

\* the outcome of the search of one record: it threw, or its matches
Threw == [threw |-> TRUE, match |-> <<>>]

NoMatch == [threw |-> FALSE, match |-> <<>>]

\* results.push for a record that matched with matchedText
PushMatch(record, records, file, matchedText, parentId) ==
  IF NotCallable(parentId) THEN Threw
  ELSE [threw |-> FALSE,
        match |-> <<[file |-> file,
                     pageId |-> IF parentId.t = "str" /\ StartsWith(parentId.v, <<"page:">>)
                                THEN parentId ELSE JUndef,
                     pageName |-> IF Truthy(parentId) THEN PageName(records, parentId)
                                  ELSE JUndef,
                     shapeId |-> Get(record, "id"),
                     shapeType |-> Get(record, "type"),
                     matchedText |-> matchedText,
                     context |-> SubSeq(matchedText, 1,
                                        IF Len(matchedText) < 100 THEN Len(matchedText)
                                        ELSE 100)]>>]

\* the search in the shape type, then in the identifier
MatchTypeOrId(record, records, file, searchLower, shapeType, id) ==
  IF NotCallable(shapeType) THEN Threw
  ELSE IF shapeType.t = "str" /\ Includes(ToLowerCase(shapeType.v), searchLower)
  THEN PushMatch(record, records, file, <<"Shape type: ">> \o shapeType.v,
                 Get(record, "parentId"))
  ELSE IF id.t # "str" THEN Threw
  ELSE IF Includes(ToLowerCase(id.v), searchLower)
  THEN PushMatch(record, records, file, <<"Shape ID: ">> \o id.v, Get(record, "parentId"))
  ELSE NoMatch

\* the text of the shape when the query occurs in it, "" otherwise
MatchText(richText, text, searchLower) ==
  IF Truthy(richText) /\ Includes(ToLowerCase(text), searchLower) THEN text ELSE <<>>

\* the search of one shape record once its text is looked at
MatchFrom(record, records, file, searchLower, searchIn, matchedText) ==
  IF matchedText # <<>>
  THEN PushMatch(record, records, file, matchedText, Get(record, "parentId"))
  ELSE IF searchIn = "all"
  THEN MatchTypeOrId(record, records, file, searchLower, Get(record, "type"),
                     Get(record, "id"))
  ELSE NoMatch

RichTextOf(record) == Get(Get(record, "props"), "richText")

SearchShape(record, records, file, searchLower, searchIn) ==
  MatchFrom(record, records, file, searchLower, searchIn,
            MatchText(RichTextOf(record), extractText(RichTextOf(record)), searchLower))

\* the matches of the outcomes rs, up to the first that threw
MatchesBefore(rs) ==
  LET thrown == {k \in 1..Len(rs) : rs[k].threw}
      n == IF thrown = {} THEN Len(rs) ELSE (CHOOSE k \in thrown : \A j \in thrown : k <= j) - 1
  IN Flatten([k \in 1..n |-> rs[k].match])

\* the loop over the records of one file
SearchRecords(records, file, searchLower, searchIn) ==
  MatchesBefore([k \in 1..Len(records) |->
                   IF StrictEq(Get(records[k], "typeName"), JStr(<<"shape">>))
                   THEN SearchShape(records[k], records, file, searchLower, searchIn)
                   ELSE NoMatch])

\* the matches of one listed file; a file that cannot be read is skipped
MatchesIn(r, file, searchLower, searchIn) ==
  IF r.ok THEN SearchRecords(Records(r.file), file, searchLower, searchIn) ELSE <<>>

SearchFiles(f, files, searchLower, searchIn) ==
  Flatten([k \in 1..Len(files) |->
             MatchesIn(tldrawRead(f, files[k].path), files[k].path, searchLower, searchIn)])

tldrawSearch(f, query, searchIn) ==
  SearchFiles(f, tldrawList(f, TRUE), ToLowerCase(query), searchIn)

(***************************************************************************)
(* Documents, files and inputs of the model                                *)
(***************************************************************************)
\* the number of operations of a run
MaxOps == 2

RichText(text) ==
  JObj(<<Mem("type", JStr(<<"doc">>)),
         Mem("content", JArr(<<JObj(<<Mem("type", JStr(<<"paragraph">>)),
                                      Mem("content", JArr(<<JObj(<<Mem("type", JStr(<<"text">>)),
                                                                   Mem("text", JStr(text))>>)>>))>>)>>))>>)

PageRecord(id, name) ==
  JObj(<<Mem("id", JStr(id)), Mem("typeName", JStr(<<"page">>)), Mem("name", JStr(name)),
         Mem("index", JStr(<<"a", "1">>))>>)

ShapeRecord(id, type, parentId, props) ==
  JObj(<<Mem("id", JStr(id)), Mem("typeName", JStr(<<"shape">>)), Mem("type", type),
         Mem("x", JNum(5)), Mem("parentId", JStr(parentId)),
         Mem("index", JStr(<<"a", "1">>)), Mem("props", props)>>)

Document(records) ==
  JObj(<<Mem("tldrawFileFormatVersion", JNum(TLDRAW_FILE_FORMAT_VERSION)),
         Mem("schema", JObj(<<Mem("schemaVersion", JNum(SCHEMA_VERSION))>>)),
         Mem("records", JArr(records))>>)

P1 == <<"page:", "1">>
S1 == <<"shape:", "1">>
S2 == <<"shape:", "2">>
\* the identifier of no shape
S9 == <<"shape:", "9">>

PropsHi == JObj(<<Mem("color", JStr(<<"black">>)), Mem("fill", JStr(<<"none">>)),
                  Mem("richText", RichText(<<"H", "i">>))>>)

\* one page, one geo shape with the text "Hi"
DocA == Document(<<PageRecord(P1, <<"Page 1">>), ShapeRecord(S1, JStr(<<"geo">>), P1, PropsHi)>>)

\* one page, two shapes: an arrow without text, a note
DocB ==
  Document(<<PageRecord(P1, <<"Page 1">>),
             ShapeRecord(S2, JStr(<<"arrow">>), P1, JObj(<<Mem("color", JStr(<<"red">>))>>)),
             ShapeRecord(S1, JStr(<<"note">>), P1, PropsHi)>>)

\* one page, two shapes: the first has a number for its type, the second the text "Hi"
DocT ==
  Document(<<PageRecord(P1, <<"Page 1">>),
             ShapeRecord(S2, JNum(5), P1, JObj(<<Mem("color", JStr(<<"red">>))>>)),
             ShapeRecord(S1, JStr(<<"geo">>), P1, PropsHi)>>)

\* no page and no shape
DocEmpty == Document(<<>>)

\* a record without a type tag
DocInvalid == Document(<<JObj(<<Mem("id", JStr(S1))>>)>>)

\* a container around a document
Wrapped(note, raw) ==
  JObj(<<Mem("meta", JStr(note)), Mem("raw", raw), Mem("rev", JNum(7))>>)

\* a valid document that carries a raw member of its own
DocWithRaw == Set(DocEmpty, "raw", DocB)

\* a markdown file with one embedded block
Markdown(payload) ==
  <<"#", "title", NL>> \o MARKDOWN_TLDRAW_START_MARKER \o <<NL>> \o payload \o <<NL>>
    \o MARKDOWN_TLDRAW_END_MARKER \o <<NL, "footer">>

PathA == <<"a", ".tldr">>
PathW == <<"w", ".tldr">>
PathN == <<"n", ".md">>
PathM == <<"m", ".md">>
PathBad == <<"bad", ".tldr">>
PathNew == <<"new", ".tldr">>
PathSubB == <<"sub", "/", "b", ".tldr">>
PathDots == <<".", ".", "c", ".tldr">>
PathEscape == <<".", ".", "/", "t", "/", "o", ".tldr">>
PathOutside == <<"/", "t", "/", "o", ".tldr">>
PathTxt == <<"x", ".txt">>
PathT == <<"t", ".tldr">>
PathRooted == <<"/", "r", "/", "a", ".tldr">>
PathUpDown == <<"sub", "/", ".", ".", "/", ".", ".", "/", "t", "/", "o", ".tldr">>

\* the file at a path the sandbox accepts
At(path) == securePath(path).path

\* the files on disk when the server starts
Corpus ==
  (At(PathA) :> Stringify(DocA))
  @@ (At(PathW) :> Stringify(Wrapped(<<"m">>, DocA)))
  @@ (At(PathN) :> Markdown(Stringify(DocA)))
  @@ (At(PathM) :> Markdown(Stringify(Wrapped(<<"k">>, DocA))))
  @@ (At(PathBad) :> <<"{", Q, "records", Q>>)
  @@ (At(PathSubB) :> Stringify(DocB))
  @@ (Resolve(TLDRAW_DIR, PathDots) :> Stringify(DocA))
  @@ (At(PathOutside) :> Stringify(DocA))
  @@ (At(PathTxt) :> <<"notes">>)
  @@ (At(PathT) :> Stringify(DocT))

NoOp == [op |-> "none", path |-> <<>>, a1 |-> JUndef, a2 |-> JUndef, ok |-> TRUE,
         err |-> "", res |-> JUndef, touched |-> {}]

\* the callers whose operations can be in flight together
Procs == {1, 2}

\* a caller with no operation in flight
Idle == [pc |-> "idle", op |-> "none", path |-> <<>>, id |-> <<>>, file |-> JUndef,
         text |-> <<>>, seen |-> <<>>, ok |-> TRUE, err |-> ""]

NoFlight == [p \in Procs |-> Idle]

Init == /\ fs = Corpus
        /\ pre = Corpus
        /\ last = NoOp
        /\ hist = <<>>
        /\ flight = NoFlight

Ready == Len(hist) < MaxOps

Succeeded == [ok |-> TRUE, err |-> ""]

\* the state after an operation with outcome r: the call and its result in last, the
\* file system before it in pre, the call added to hist
Done(op, path, a1, a2, r, res, newFs, touched, id) ==
  /\ flight' = flight
  /\ pre' = fs
  /\ fs' = newFs
  /\ last' = [op |-> op, path |-> path, a1 |-> a1, a2 |-> a2, ok |-> r.ok, err |-> r.err,
              res |-> res, touched |-> touched]
  /\ hist' = Append(hist, [op |-> op, path |-> path, ok |-> r.ok, id |-> id])

Read(paths) ==
  \E path \in paths :
    LET r == tldrawRead(fs, path)
    IN /\ Ready
       /\ Done("read", path, JUndef, JUndef, r,
               IF r.ok THEN [file |-> r.file, storageFormat |-> r.storageFormat] ELSE JUndef,
               fs, ReadTouched(path), <<>>)

Write(paths, contents) ==
  \E path \in paths : \E i \in 1..Len(contents) :
    LET r == tldrawWrite(fs, path, contents[i])
    IN /\ Ready
       /\ Done("write", path, contents[i], JUndef, r, JUndef, r.fs, r.touched, <<>>)

Create(paths, names, uuids) ==
  \E path \in paths : \E i \in 1..Len(names) : \E uuid \in uuids :
    LET r == tldrawCreateFile(fs, path, names[i], uuid)
    IN /\ Ready
       /\ Done("create", path, names[i], JStr(uuid), r, JUndef, r.fs, r.touched, <<>>)

GetShapes(paths, pageIds) ==
  \E path \in paths : \E pageId \in pageIds :
    LET r == tldrawGetShapes(fs, path, pageId)
    IN /\ Ready
       /\ Done("get-shapes", path, pageId, JUndef, r, IF r.ok THEN r.shapes ELSE JUndef,
               fs, ReadTouched(path), <<>>)

\* add-shape in a run of at most limit operations
AddShapeUpTo(limit, paths, shapes, pageIds, uuids) ==
  \E path \in paths : \E i \in 1..Len(shapes) : \E pageId \in pageIds : \E uuid \in uuids :
    LET r == tldrawAddShape(fs, path, AddShapeSchema(shapes[i]), pageId, uuid)
    IN /\ Len(hist) < limit
       /\ Done("add-shape", path, shapes[i], pageId, r,
               IF r.ok THEN r.shapeId ELSE JUndef, r.fs, r.touched, <<"shape:">> \o uuid)

AddShape(paths, shapes, pageIds, uuids) == AddShapeUpTo(MaxOps, paths, shapes, pageIds, uuids)

UpdateShape(paths, shapeIds, updates) ==
  \E path \in paths : \E shapeId \in shapeIds : \E i \in 1..Len(updates) :
    LET r == tldrawUpdateShape(fs, path, JStr(shapeId), updates[i])
    IN /\ Ready
       /\ Done("update-shape", path, JStr(shapeId), updates[i], r, JUndef, r.fs, r.touched,
               shapeId)

\* delete-shape in a run of at most limit operations
DeleteShapeUpTo(limit, paths, shapeIds) ==
  \E path \in paths : \E shapeId \in shapeIds :
    LET r == tldrawDeleteShape(fs, path, JStr(shapeId))
    IN /\ Len(hist) < limit
       /\ Done("delete-shape", path, JStr(shapeId), JUndef, r, JUndef, r.fs, r.touched,
               shapeId)

DeleteShape(paths, shapeIds) == DeleteShapeUpTo(MaxOps, paths, shapeIds)

\* the files a scan of the root looks at
Scanned(f) == {p \in DOMAIN f : IsUnder(p, TLDRAW_DIR) /\ isReadableTldrawPath(p)}

List(flags) ==
  \E recursive \in flags :
    /\ Ready
    /\ Done("list", <<>>, JBool(recursive), JUndef, Succeeded, tldrawList(fs, recursive),
            fs, Scanned(fs), <<>>)

Search(queries, scopes) ==
  \E query \in queries : \E searchIn \in scopes :
    /\ Ready
    /\ Done("search", <<>>, JStr(query), JStr(<<searchIn>>), Succeeded,
            tldrawSearch(fs, query, searchIn), fs, Scanned(fs), <<>>)

(***************************************************************************)
(* The storage operations: read, write, create                             *)
(***************************************************************************)
WriteContents ==
  <<DocB, Wrapped(<<"z">>, DocB), DocInvalid, DocWithRaw,
    JStr(<<NL>> \o Stringify(DocEmpty))>>

CreateNames == <<JUndef, JStr(<<"Plan">>)>>

StorePaths == {PathA, PathW, PathN, PathM, PathNew}

CreatePaths == {PathA, PathNew, PathEscape, PathTxt}

Next ==
  \/ Read(StorePaths \cup {PathBad})
  \/ Write(StorePaths, WriteContents)
  \/ Create(CreatePaths, CreateNames, UUIDs)

Spec == Init /\ [][Next]_vars

(***************************************************************************)
(* The shape operations on the four storage formats                        *)
(***************************************************************************)
ShapePaths == {PathA, PathW, PathN, PathM}

\* a shape with defaults for its properties, and one whose text is the start marker
ShapeInputs ==
  <<JObj(<<Mem("type", JStr(<<"note">>)), Mem("x", JNum(3))>>),
    JObj(<<Mem("props", JObj(<<Mem("richText", RichText(MARKDOWN_TLDRAW_START_MARKER))>>))>>)>>

\* properties given as a map, as null, and as a string
UpdateInputs ==
  <<JObj(<<Mem("x", JNum(9)),
           Mem("props", JObj(<<Mem("color", JStr(<<"red">>)),
                               Mem("richText", RichText(<<"I">>))>>))>>),
    JObj(<<Mem("props", JNull), Mem("meta", JObj(<<>>))>>),
    JObj(<<Mem("props", JStr(<<"flat">>))>>)>>

ShapeIds == {S1, S9}

ShapeWrites == <<DocB, Wrapped(<<"z">>, DocB)>>

NextShapes ==
  \/ Write(ShapePaths, ShapeWrites)
  \/ GetShapes(ShapePaths, {JUndef})
  \/ AddShape(ShapePaths, ShapeInputs, {JUndef}, UUIDs)
  \/ UpdateShape(ShapePaths, ShapeIds, UpdateInputs)
  \/ DeleteShape(ShapePaths, ShapeIds)

SpecShapes == Init /\ [][NextShapes]_vars

(***************************************************************************)
(* Every operation that takes a path, on paths inside and outside the root *)
(***************************************************************************)
PathInputs == {PathA, PathRooted, PathEscape, PathUpDown, PathOutside, PathDots}

NextPaths ==
  \/ Read(PathInputs)
  \/ Write(PathInputs, <<DocB>>)
  \/ Create(PathInputs \cup {PathNew}, <<JUndef>>, {<<"u1">>})
  \/ GetShapes(PathInputs, {JStr(P1)})
  \/ AddShape(PathInputs, <<ShapeInputs[1]>>, {JStr(P1)}, {<<"u1">>})
  \/ UpdateShape(PathInputs, {S1}, <<UpdateInputs[1]>>)
  \/ DeleteShape(PathInputs, {S1})

SpecPaths == Init /\ [][NextPaths]_vars

(***************************************************************************)
(* Listing and search over a corpus that writes change                     *)
(***************************************************************************)
Queries == {<<"h", "i">>, <<"geo">>, <<>>}

Scopes == {"text", "all"}

NextCorpus ==
  \/ Write({PathA, PathBad, PathSubB, PathT}, <<DocB, DocT, DocEmpty>>)
  \/ List(BOOLEAN)
  \/ Search(Queries, Scopes)

SpecCorpus == Init /\ [][NextCorpus]_vars

(***************************************************************************)
(* What the claims speak of: the file of the last operation before and     *)
(* after it                                                                *)
(***************************************************************************)
Mutations == {"write", "add-shape", "update-shape", "delete-shape"}

\* the last operation changed a file and reported success
Mutated == last.op \in Mutations /\ last.ok

\* the decoding of the file of the last operation, before it and after it
Before == tldrawRead(pre, last.path)
After == tldrawRead(fs, last.path)

\* the JSON value stored in a .tldr file
StoredIn(f) == JsonParse(f[At(last.path)]).v

\* the members of a container other than raw
OtherMembers(container) == SelectSeq(Members(container), LAMBDA m : m.k # <<"raw">>)

\* whether document new is what the last operation makes of document old
IsNewDocument(old, new) ==
  CASE last.op = "write" -> new = InputPayload(last.a1).file
    [] last.op = "add-shape" ->
         /\ Set(new, "records", JArr(SubSeq(Records(new), 1, Len(Records(new)) - 1))) = old
         /\ Len(Records(new)) = Len(Records(old)) + 1
         /\ Get(Records(new)[Len(Records(new))], "id") = last.res
         /\ Get(Records(new)[Len(Records(new))], "typeName") = JStr(<<"shape">>)
    [] last.op = "update-shape" ->
         /\ Set(new, "records", Get(old, "records")) = old
         /\ Len(Records(new)) = Len(Records(old))
         /\ \A i \in 1..Len(Records(old)) :
              Get(Records(old)[i], "id") # last.a1 => Records(new)[i] = Records(old)[i]
    [] last.op = "delete-shape" ->
         /\ Set(new, "records", Get(old, "records")) = old
         /\ Records(new) = SelectSeq(Records(old), LAMBDA r : Get(r, "id") # last.a1)

\* C1: after a successful write, add-shape, update-shape or delete-shape on a
\* .tldr path whose content decoded as wrapped-json, the file still decodes as
\* wrapped-json, every member of the container other than raw is as it was,
\* and raw is the new document.
C1_WrappedKept ==
  (Mutated /\ EndsWith(last.path, <<".tldr">>) /\ Before.ok
     /\ Before.storageFormat = "wrapped-json")
  => /\ After.ok
     /\ After.storageFormat = "wrapped-json"
     /\ OtherMembers(StoredIn(fs)) = OtherMembers(StoredIn(pre))
     /\ IsNewDocument(Get(StoredIn(pre), "raw"), Get(StoredIn(fs), "raw"))

\* a wrapped container was written into a wrapped .tldr file, whose note is kept
C1_Witness ==
  /\ last.op = "write" /\ last.ok /\ last.path = PathW
  /\ last.a1 = Wrapped(<<"z">>, DocB)
  /\ hist[1].op = "add-shape" /\ hist[1].ok /\ hist[1].path = PathW
  /\ Get(StoredIn(fs), "meta") = JStr(<<"m">>)
  /\ Get(StoredIn(fs), "raw") = DocB

\* the block of the markdown file of the last operation, as it was before it
BlockBefore == locateMarkdownTldrawBlock(pre[At(last.path)])

\* the text of the file of the last operation from its end marker on, before and after
SuffixBefore == SliceFrom(pre[At(last.path)], BlockBefore.jsonEnd)
SuffixAfter ==
  SliceFrom(fs[At(last.path)], Len(fs[At(last.path)]) - Len(SuffixBefore))

\* C2: a successful write or shape mutation on a .md path changes only the text
\* strictly between the markers: the file up to and including the start marker
\* and the file from the end marker on are the same before and after.
C2_MarkdownFrame ==
  (Mutated /\ EndsWith(last.path, <<".md">>))
  => /\ BlockBefore.ok
     /\ Len(fs[At(last.path)]) >= BlockBefore.jsonStart + Len(SuffixBefore)
     /\ Slice(fs[At(last.path)], 0, BlockBefore.jsonStart)
          = Slice(pre[At(last.path)], 0, BlockBefore.jsonStart)
     /\ EndsWith(Slice(fs[At(last.path)], 0, BlockBefore.jsonStart),
                 MARKDOWN_TLDRAW_START_MARKER)
     /\ SuffixAfter = SuffixBefore
     /\ StartsWith(SuffixAfter, MARKDOWN_TLDRAW_END_MARKER)

\* a shape of a markdown file that holds a container was updated: the text between
\* the markers changed, the title and the footer did not
C2_Witness ==
  /\ last.op = "update-shape" /\ last.ok /\ last.path = PathM
  /\ fs[At(PathM)] # pre[At(PathM)]
  /\ StartsWith(fs[At(PathM)], <<"#", "title", NL>>)
  /\ EndsWith(fs[At(PathM)], <<NL, "footer">>)
  /\ hist[1].op = "write" /\ hist[1].ok /\ hist[1].path = PathM

\* the value a write was given: the parse of a string, the object otherwise
Written == IF last.a1.t = "str" THEN JsonParse(last.a1.v).v ELSE last.a1

\* the last operation wrote a document that passes validation to a .tldr path that
\* did not exist or held a plain document
WrotePlain ==
  /\ last.op = "write" /\ last.ok /\ EndsWith(last.path, <<".tldr">>)
  /\ validateTldrawFile(Written).ok
  /\ (existsSync(pre, At(last.path)) => (Before.ok /\ Before.storageFormat = "plain-json"))

\* the path now reads as the plain document that was written
ReadsBackPlain ==
  After.ok /\ After.file = Written /\ After.storageFormat = "plain-json"

\* C3 as stated: every document that passes validation, written to a .tldr path
\* that does not exist or holds a plain document, reads back equal and plain.
C3_AsStated == WrotePlain => ReadsBackPlain

\* C3: every document that passes validation and has no member named raw, written
\* to a .tldr path that does not exist or holds a plain document, reads back
\* equal to what was written, with the plain storage format.
C3_RoundTrip == (WrotePlain /\ ~HasKey(Written, "raw")) => ReadsBackPlain

\* a document was written to a path that did not exist and reads back
C3_Witness ==
  /\ WrotePlain /\ last.path = PathNew /\ ~existsSync(pre, At(PathNew))
  /\ last.a1 = DocB
  /\ After.file = DocB

PathOperations ==
  {"read", "write", "create", "get-shapes", "add-shape", "update-shape", "delete-shape"}

\* whether absolute path p is the root directory or lies below it
InRoot(p) == IsPrefix(Segments(TLDRAW_DIR), Segments(p))

\* the files outside the root are what they were before the last operation
OutsideUntouched ==
  /\ {p \in DOMAIN fs : ~InRoot(p)} = {p \in DOMAIN pre : ~InRoot(p)}
  /\ \A p \in DOMAIN pre : ~InRoot(p) => fs[p] = pre[p]

\* C4: an operation given a relative path that resolves outside the root fails
\* with PathTraversal and looks at no file; given any relative path it reads and
\* writes nothing outside the root; an absolute path is accepted as it resolves,
\* whether inside the root or not.
C4_Sandbox ==
  last.op \in PathOperations
  => /\ (~IsAbsolute(last.path) /\ ~InRoot(Resolve(BaseDir, last.path)))
          => (~last.ok /\ last.err = "PathTraversal" /\ last.touched = {} /\ fs = pre)
     /\ ~IsAbsolute(last.path)
          => (OutsideUntouched /\ \A p \in last.touched : InRoot(p))
     /\ IsAbsolute(last.path)
          => /\ securePath(last.path) = [ok |-> TRUE, err |-> "",
                                          path |-> Resolve(SEP, last.path)]
             /\ last.err # "PathTraversal"

\* a write through an absolute path changed a file outside the root, then a write
\* through a relative path to the same file was refused
C4_Witness ==
  /\ Len(hist) = 2
  /\ hist[1].op = "write" /\ hist[1].ok /\ hist[1].path = PathOutside
  /\ fs[At(PathOutside)] = Stringify(DocB)
  /\ last.op = "write" /\ last.path = PathUpDown
  /\ Resolve(BaseDir, PathUpDown) = At(PathOutside)
  /\ last.err = "PathTraversal"

\* the identities of shape records
IdsOf(shapes) == {Get(shapes[i], "id") : i \in 1..Len(shapes)}

\* the identities of the shapes get-shapes returns for a path, without a page filter
ShapeIdsOf(f, path) == IdsOf(tldrawGetShapes(f, path, JUndef).shapes)

\* the identities the first n operations leave on a path: those of the file the
\* server started with, plus those add-shape returned, minus those delete-shape
\* removed
RECURSIVE ExpectedIds(_, _)
ExpectedIds(path, n) ==
  IF n = 0 THEN ShapeIdsOf(Corpus, path)
  ELSE IF hist[n].path = path /\ hist[n].ok /\ hist[n].op = "add-shape"
  THEN ExpectedIds(path, n - 1) \cup {JStr(hist[n].id)}
  ELSE IF hist[n].path = path /\ hist[n].ok /\ hist[n].op = "delete-shape"
  THEN ExpectedIds(path, n - 1) \ {JStr(hist[n].id)}
  ELSE ExpectedIds(path, n - 1)

\* the operations that changed the file at a path were add-shape and delete-shape
OnlyAddAndDelete(path) ==
  \A n \in 1..Len(hist) :
    (hist[n].path = path /\ hist[n].ok /\ hist[n].op \in Mutations)
      => hist[n].op \in {"add-shape", "delete-shape"}

\* C5: starting from a valid document file, after successful add-shape and
\* delete-shape operations on its path, get-shapes without a page filter returns
\* the initial identities plus those add-shape returned minus those delete-shape
\* was given.
C5_Lifecycle ==
  \A path \in ShapePaths :
    OnlyAddAndDelete(path)
      => /\ tldrawGetShapes(fs, path, JUndef).ok
         /\ ShapeIdsOf(fs, path) = ExpectedIds(path, Len(hist))

\* the last operation was given an identity that no record of the document carries
UnknownIdentity ==
  /\ last.op \in {"update-shape", "delete-shape"}
  /\ Before.ok
  /\ JStr(last.a1.v) \notin IdsOf(Records(Before.file))

\* C6: delete-shape and update-shape given an identity that no record of the
\* document carries fail with ShapeNotFound and leave every file as it was.
C6_ShapeNotFound ==
  UnknownIdentity
  => /\ ~last.ok
     /\ last.err = "ShapeNotFound"
     /\ fs = pre
     /\ last.touched = {At(last.path)}

\* a shape was deleted, then an update of the same shape found it gone
C6_Witness ==
  /\ Len(hist) = 2
  /\ hist[1].op = "delete-shape" /\ hist[1].ok /\ hist[1].path = PathN /\ hist[1].id = S1
  /\ last.op = "update-shape" /\ last.path = PathN /\ last.a1 = JStr(S1)
  /\ UnknownIdentity
  /\ last.err = "ShapeNotFound"

\* the keys of a value
Keys(x) == {Members(x)[i].k : i \in 1..Len(Members(x))}

\* whether newProps is oldProps overridden key by key by given: the keys of given
\* have the values given has, the other keys of oldProps keep theirs
KeyByKey(oldProps, newProps, given) ==
  /\ newProps.t = "obj"
  /\ Keys(newProps) = Keys(oldProps) \cup Keys(given)
  /\ \A k \in Keys(given) : MemberValue(Members(newProps), k) = MemberValue(Members(given), k)
  /\ \A k \in Keys(oldProps) \ Keys(given) :
       MemberValue(Members(newProps), k) = MemberValue(Members(oldProps), k)

\* the fields of a record other than props after an update: those updates names
\* have its values, the others are as they were
FieldsUpdated(old, new, updates) ==
  /\ Keys(new) = Keys(old) \cup Keys(updates)
  /\ \A k \in Keys(updates) \ {<<"props">>} :
       MemberValue(Members(new), k) = MemberValue(Members(updates), k)
  /\ \A k \in Keys(old) \ Keys(updates) :
       MemberValue(Members(new), k) = MemberValue(Members(old), k)

\* the props of a record after an update, as C7 states them
PropsAsStated(old, new, updates) ==
  HasKey(updates, "props")
    => KeyByKey(Get(old, "props"), Get(new, "props"), Get(updates, "props"))

\* the props of a record after an update: merged key by key when updates.props is
\* an object (or null, on a record that has props), replaced by updates.props
\* when that is no object
PropsMergedOrReplaced(old, new, updates) ==
  /\ (Get(updates, "props").t = "obj"
        \/ (Get(updates, "props").t = "null" /\ Truthy(Get(old, "props"))))
       => KeyByKey(Get(old, "props"), Get(new, "props"), Get(updates, "props"))
  /\ (HasKey(updates, "props") /\ ~TypeofObject(Get(updates, "props")))
       => Get(new, "props") = Get(updates, "props")

\* the documents before and after an update of the record at index i: that record
\* has its fields updated, nothing else differs
OnlyRecordUpdated(oldDoc, newDoc, updates, i) ==
  /\ Set(newDoc, "records", Get(oldDoc, "records")) = oldDoc
  /\ Len(Records(newDoc)) = Len(Records(oldDoc))
  /\ \A j \in 1..Len(Records(oldDoc)) : j # i => Records(newDoc)[j] = Records(oldDoc)[j]
  /\ FieldsUpdated(Records(oldDoc)[i], Records(newDoc)[i], updates)

Updated == last.op = "update-shape" /\ last.ok

\* the index of the record the last update changed
UpdatedIndex == FindIndexById(Records(Before.file), last.a1)

RecoloredFrom(old, new) ==
  /\ Get(new, "x") = JNum(9) /\ Get(old, "x") = JNum(5)
  /\ Get(Get(new, "props"), "color") = JStr(<<"red">>)
  /\ Get(Get(old, "props"), "color") = JStr(<<"black">>)
  /\ Get(Get(new, "props"), "fill") = JStr(<<"none">>)
  /\ Get(Get(new, "props"), "richText") = RichText(<<"I">>)

CreatedOverFile == last.op = "create" /\ existsSync(pre, TargetPath(last.path))

\* the create was refused because of the file, which is as it was
RefusedAsExisting ==
  /\ ~last.ok
  /\ last.err = "AlreadyExists"
  /\ fs = pre

\* C8 as stated: create on a path at which a file exists fails with AlreadyExists
\* and leaves the file as it was.
C8_AsStated == CreatedOverFile => RefusedAsExisting

\* C8: create on a path that the sandbox accepts and at which a file exists fails
\* with AlreadyExists and leaves the file as it was, whatever its content or
\* extension.
C8_CreateGuard == (CreatedOverFile /\ securePath(last.path).ok) => RefusedAsExisting

\* a file was created, and a second create on its path was refused
C8_Witness ==
  /\ Len(hist) = 2
  /\ hist[1].op = "create" /\ hist[1].ok /\ hist[1].path = PathNew
  /\ last.op = "create" /\ last.path = PathNew
  /\ CreatedOverFile
  /\ RefusedAsExisting

\* the readable files under the root, within the depth a scan reaches, that decode
Decodable(f, recursive) ==
  {p \in DOMAIN f :
     /\ IsUnder(p, TLDRAW_DIR)
     /\ isReadableTldrawPath(p)
     /\ (recursive \/ Len(Segments(p)) = Len(Segments(TLDRAW_DIR)) + 1)
     /\ DecodeText(p, f[p]).ok}

\* the decodable files in which the search finds a shape
Matching(f, searchLower, searchIn) ==
  {p \in Decodable(f, TRUE) :
     SearchRecords(Records(DecodeText(p, f[p]).file), Relative(TLDRAW_DIR, p),
                   searchLower, searchIn) # <<>>}

\* the paths by which a listing or a search names the files
NamesOf(files) == {Relative(TLDRAW_DIR, p) : p \in files}

\* the list has one summary for each of the files, and no other
ListsExactly(summaries, files) ==
  /\ {summaries[i].path : i \in 1..Len(summaries)} = NamesOf(files)
  /\ Len(summaries) = Cardinality(files)

\* the matches come from each of the files, and from no other
FindsExactly(matches, files) ==
  {matches[i].file : i \in 1..Len(matches)} = NamesOf(files)

\* C9: list and search return without an error; the list has exactly one summary
\* for each readable file within the scanned depth that decodes, and the matches
\* of a search come from exactly the files that decode and hold a matching shape:
\* a file that fails to decode hides no other file.
C9_Resilience ==
  /\ last.op = "list"
       => (last.ok /\ ListsExactly(last.res, Decodable(fs, last.a1.v)))
  /\ last.op = "search"
       => (last.ok /\ FindsExactly(last.res,
                                   Matching(fs, ToLowerCase(last.a1.v), last.a2.v[1])))

\* the part of C9 that is about list
C9_ListOnly ==
  last.op = "list" => (last.ok /\ ListsExactly(last.res, Decodable(fs, last.a1.v)))

\* the files a search reads: those the listing names and the re-read decodes
Searched(f) == {p \in Decodable(f, TRUE) : tldrawRead(f, Relative(TLDRAW_DIR, p)).ok}

\* the shape records of a document
ShapeRecordsOf(file) == FilterTypeName(Records(file), <<"shape">>)

\* the matches that name a shape of a file
MatchesOf(matches, name, shape) ==
  SelectSeq(matches, LAMBDA m : m.file = name /\ m.shapeId = Get(shape, "id"))

\* whether the lower-case query occurs in a string field of a record
InField(value, searchLower) ==
  value.t = "str" /\ Includes(ToLowerCase(value.v), searchLower)

\* what C10 states of one shape, whose extracted text is text, and its matches ms
ScopeOfShape(shape, text, ms, searchLower, searchIn) ==
  IF Includes(ToLowerCase(text), searchLower)
  THEN ms # <<>> /\ \A i \in 1..Len(ms) : ms[i].matchedText = text
  ELSE ms # <<>>
         => /\ searchIn = "all"
            /\ InField(Get(shape, "type"), searchLower)
                 \/ InField(Get(shape, "id"), searchLower)

\* what C10 states of the shapes of one file
ScopeOfShapes(shapes, name, matches, searchLower, searchIn) ==
  \A i \in 1..Len(shapes) :
    ScopeOfShape(shapes[i], extractText(RichTextOf(shapes[i])),
                 MatchesOf(matches, name, shapes[i]), searchLower, searchIn)

\* C10: in the files a search reads, a shape whose extracted text does not contain
\* the query matches only under scope all and only when its type or its identity
\* contains the query; a shape whose text contains the query matches under both
\* scopes, with the whole text as the matched text.
C10_SearchScope ==
  last.op = "search"
  => \A p \in Searched(fs) :
       ScopeOfShapes(ShapeRecordsOf(DecodeText(p, fs[p]).file), Relative(TLDRAW_DIR, p),
                     last.res, ToLowerCase(last.a1.v), last.a2.v[1])

\* C10 for the queries that are not empty
C10_NonEmptyQuery == (last.op = "search" /\ last.a1.v # <<>>) => C10_SearchScope


(***************************************************************************)
(* Files that do not decode, and the operations on them                    *)
(***************************************************************************)
PathNull == <<"null", ".tldr">>
PathRawBad == <<"rawbad", ".tldr">>
PathRawNum == <<"rawnum", ".tldr">>
PathMdBad == <<"bad", ".md">>
PathMdEmpty == <<"empty", ".md">>
PathMdInvalid == <<"invalid", ".md">>
PathMdNone == <<"none", ".md">>
PathMdTwoStarts == <<"starts", ".md">>
PathMdTwoEnds == <<"ends", ".md">>
PathMdEndFirst == <<"endfirst", ".md">>
\* markdown paths at which there is no file, in the root and outside it
PathNewMd == <<"new", ".md">>
PathEscapeMd == <<".", ".", "/", "t", "/", "new", ".md">>

\* the corpus and, next to it, a container with raw null, one around an invalid
\* document, one around a number, and markdown files: a payload that is not JSON, a
\* blank one, an invalid document, no marker, a marker twice, an end marker first
Undecodable ==
  (At(PathNull) :> Stringify(JObj(<<Mem("meta", JStr(<<"m">>)), Mem("raw", JNull)>>)))
  @@ (At(PathRawBad) :> Stringify(Wrapped(<<"m">>, DocInvalid)))
  @@ (At(PathRawNum) :> Stringify(Wrapped(<<"m">>, JNum(5))))
  @@ (At(PathMdBad) :> Markdown(<<"{">>))
  @@ (At(PathMdEmpty) :> Markdown(<<SP>>))
  @@ (At(PathMdInvalid) :> Markdown(Stringify(DocInvalid)))
  @@ (At(PathMdNone) :> <<"#", "title", NL, "text">>)
  @@ (At(PathMdTwoStarts)
        :> MARKDOWN_TLDRAW_START_MARKER \o <<NL>> \o Markdown(Stringify(DocEmpty)))
  @@ (At(PathMdTwoEnds)
        :> Markdown(Stringify(DocEmpty)) \o <<NL>> \o MARKDOWN_TLDRAW_END_MARKER)
  @@ (At(PathMdEndFirst)
        :> MARKDOWN_TLDRAW_END_MARKER \o <<NL>> \o Markdown(Stringify(DocEmpty)))
  @@ Corpus

InitUndecodable ==
  /\ fs = Undecodable
  /\ pre = Undecodable
  /\ last = NoOp
  /\ hist = <<>>
  /\ flight = NoFlight

FaultPaths ==
  {PathA, PathN, PathBad, PathRawBad, PathMdBad, PathMdTwoStarts, PathNewMd, PathTxt,
   PathEscape, PathEscapeMd}

\* updates that clear the type tag, clear the identity, move the shape
FaultUpdates ==
  <<JObj(<<Mem("typeName", JStr(<<>>))>>), JObj(<<Mem("id", JStr(<<>>))>>),
    JObj(<<Mem("x", JNum(9))>>)>>

NextFaults ==
  \/ Read(FaultPaths)
  \/ Write(FaultPaths, <<DocEmpty, DocInvalid>>)
  \/ Create(FaultPaths, <<JUndef>>, {<<"u1">>})
  \/ GetShapes(FaultPaths, {JUndef})
  \/ AddShape(FaultPaths, <<ShapeInputs[1]>>, {JUndef}, {<<"u1">>})
  \/ UpdateShape(FaultPaths, {S1}, FaultUpdates)
  \/ DeleteShape(FaultPaths, {S1, S9})

SpecFaults == InitUndecodable /\ [][NextFaults]_vars

RecoverPaths ==
  {PathA, PathW, PathBad, PathNull, PathRawBad, PathRawNum, PathN, PathM, PathMdBad,
   PathMdEmpty, PathMdInvalid, PathMdNone, PathMdTwoStarts, PathMdTwoEnds, PathMdEndFirst}

NextRecover ==
  \/ Read(RecoverPaths)
  \/ Write(RecoverPaths, <<DocEmpty, Wrapped(<<"z">>, DocEmpty)>>)

SpecRecover == InitUndecodable /\ [][NextRecover]_vars

(***************************************************************************)
(* New documents and the shapes added to them                              *)
(***************************************************************************)
PathE == <<"e", ".tldr">>
PathSubNew == <<"sub", "/", "new", ".tldr">>
PathOutNew == <<"/", "t", "/", "q", ".tldr">>
PathEscapeNew == <<".", ".", "/", "t", "/", "q", ".tldr">>

\* the corpus and a document without a page
WithPageless == (At(PathE) :> Stringify(DocEmpty)) @@ Corpus

InitPages ==
  /\ fs = WithPageless
  /\ pre = WithPageless
  /\ last = NoOp
  /\ hist = <<>>
  /\ flight = NoFlight

\* the identifier of no page
P9 == <<"page:", "9">>

\* no page, the page of the corpus documents, a page no document has, the empty string
PageIds == {JUndef, JStr(P1), JStr(P9), JStr(<<>>)}

\* a shape that gives every field, one that gives none, one that gives falsy values
FullShape ==
  JObj(<<Mem("id", JStr(<<"shape:", "mine">>)), Mem("type", JStr(<<"note">>)),
         Mem("x", JNum(3)), Mem("y", JNum(4)), Mem("rotation", JNum(2)),
         Mem("isLocked", JBool(TRUE)), Mem("opacity", JNum(0)),
         Mem("props", JObj(<<Mem("color", JStr(<<"red">>))>>))>>)

PageShapeInputs ==
  <<FullShape, JObj(<<>>),
    JObj(<<Mem("type", JStr(<<>>)), Mem("x", JNum(0)), Mem("props", JObj(<<>>))>>)>>

NextPages ==
  \/ Create({PathNew, PathSubNew, PathOutNew, PathEscapeNew}, CreateNames, UUIDs)
  \/ AddShape({PathA, PathE, PathNew}, PageShapeInputs, PageIds, {<<"u1">>})
  \/ List(BOOLEAN)

SpecPages == InitPages /\ [][NextPages]_vars

(***************************************************************************)
(* Shapes added to and deleted from a new document                         *)
(***************************************************************************)
\* the number of operations of a run on the new document
MaxKeyOps == 4

PathK == <<"k", ".tldr">>

\* the root holds one file, a document that create has just written
NewDocument ==
  At(PathK) :> Stringify(createEmptyTldrawFile(<<"k">>, <<"u0">>))

InitKeys ==
  /\ fs = NewDocument
  /\ pre = NewDocument
  /\ last = NoOp
  /\ hist = <<>>
  /\ flight = NoFlight

KeyUUIDs == {<<"u1">>, <<"u2">>, <<"u3">>}

\* crypto.randomUUID() does not repeat: the identifiers no add-shape of the run drew
FreshUUIDs ==
  {u \in KeyUUIDs :
     \A i \in 1..Len(hist) : hist[i].op = "add-shape" => hist[i].id # <<"shape:">> \o u}

NextKeys ==
  \/ AddShapeUpTo(MaxKeyOps, {PathK}, <<JObj(<<>>)>>, {JUndef}, FreshUUIDs)
  \/ DeleteShapeUpTo(MaxKeyOps, {PathK}, {<<"shape:">> \o u : u \in KeyUUIDs})

SpecKeys == InitKeys /\ [][NextKeys]_vars

(***************************************************************************)
(* Files read and written back                                             *)
(***************************************************************************)
\* one page and a shape whose text is the start marker phrase
DocMarked ==
  Document(<<PageRecord(P1, <<"Page 1">>),
             ShapeRecord(S1, JStr(<<"geo">>), P1,
                         JObj(<<Mem("richText", RichText(MARKDOWN_TLDRAW_START_MARKER))>>))>>)

\* text with every start marker phrase written with an escape
Escaped(text) ==
  [i \in 1..Len(text) |-> IF text[i] = MARKDOWN_TLDRAW_START_MARKER[1]
                          THEN ESCAPED_START_MARKER ELSE text[i]] \o <<>>

PathX == <<"x", ".md">>

\* the corpus and a markdown file whose document holds the start marker phrase,
\* written with an escape in the JSON text
WithEscaped == (At(PathX) :> Markdown(Escaped(Stringify(DocMarked)))) @@ Corpus

InitRewrite ==
  /\ fs = WithEscaped
  /\ pre = WithEscaped
  /\ last = NoOp
  /\ hist = <<>>
  /\ flight = NoFlight

RewritePaths == {PathA, PathW, PathN, PathM, PathX}

NextRewrite ==
  \/ Read(RewritePaths)
  \/ Write(RewritePaths, <<DocB, DocMarked>>)

SpecRewrite == InitRewrite /\ [][NextRewrite]_vars

(***************************************************************************)
(* update-shape and delete-shape given the identity of a shape, of a page   *)
(* and of no record                                                        *)
(***************************************************************************)
RecordIds == {S1, S9, P1}

NextRecords ==
  \/ UpdateShape(ShapePaths, RecordIds, UpdateInputs)
  \/ DeleteShape(ShapePaths, RecordIds)

SpecRecords == Init /\ [][NextRecords]_vars

(***************************************************************************)
(* Shapes added to a document that create has just written, with and       *)
(* without a page id                                                       *)
(***************************************************************************)
\* the number of operations of a run of add-shape
MaxParentOps == 3

\* the page of the new document
P0 == <<"page:", "u0">>

\* no page id, the page of the document, a page it does not have, the empty string
ParentIds == {JUndef, JStr(P0), JStr(P9), JStr(<<>>)}

NextParents == AddShapeUpTo(MaxParentOps, {PathK}, <<JObj(<<>>)>>, ParentIds, FreshUUIDs)

SpecParents == InitKeys /\ [][NextParents]_vars

(***************************************************************************)
(* Two operations in flight together.  An operation runs without           *)
(* interruption from one file system call to the next; at a call it is     *)
(* suspended and the other caller's operation may run.  writeFile opens    *)
(* the file for writing, which empties it, and then writes the text from   *)
(* the start of the file: the two are separate calls to the system, and a  *)
(* read between them sees the empty file.                                  *)
(***************************************************************************)
\* the identifier crypto.randomUUID() gives the operation of caller p
RaceUUID(p) == IF p = 1 THEN <<"u1">> ELSE <<"u2">>

RaceShape(p) == <<"shape:">> \o RaceUUID(p)

RacePaths == {PathA, PathW, PathM}

\* the text of a file, nothing for a file that is not there
TextAt(f, path) == IF existsSync(f, At(path)) THEN f[At(path)] ELSE <<>>

\* a write that leaves a file that holds text as it is
OverwriteKeeping(old, text) == IF old = <<>> THEN text ELSE old

\* text written from the start of a file that holds old
Overwrite(old, text) == text \o SubSeq(old, Len(text) + 1, Len(old))

\* the operation of caller p is suspended as rec
Suspend(p, rec) ==
  /\ flight' = [flight EXCEPT ![p] = rec]
  /\ UNCHANGED <<fs, pre, last, hist>>

\* the operation of caller p, in flight as rec, returns or throws
Finish(p, rec, ok, err, newFs) ==
  /\ flight' = [flight EXCEPT ![p] = [rec EXCEPT !.pc = "done", !.ok = ok, !.err = err]]
  /\ pre' = fs
  /\ fs' = newFs
  /\ last' = [op |-> rec.op, path |-> rec.path, a1 |-> JUndef, a2 |-> JUndef, ok |-> ok,
              err |-> err, res |-> JUndef, touched |-> ReadTouched(rec.path)]
  /\ hist' = Append(hist, [op |-> rec.op, path |-> rec.path, ok |-> ok, id |-> rec.id])

\* add-shape up to the point where its read of the file returns
AddShapeRead(p, paths) ==
  \E path \in paths :
    LET plan == AddShapePlan(AddShapeSchema(JObj(<<>>)), JUndef, RaceUUID(p),
                             tldrawRead(fs, path))
        rec == [Idle EXCEPT !.op = "add-shape", !.path = path, !.id = RaceShape(p),
                            !.file = plan.file, !.seen = <<TextAt(fs, path)>>]
    IN /\ flight[p].pc = "idle"
       /\ IF plan.ok THEN Suspend(p, [rec EXCEPT !.pc = "planned"])
          ELSE Finish(p, rec, FALSE, plan.err, fs)

\* tldrawWrite of the document of an operation, up to the point where its read of the
\* file that is there returns: the text to write is made from what that read saw
WriteStage(p) ==
  LET rec == flight[p]
      w == tldrawWrite(fs, rec.path, rec.file)
      saw == [rec EXCEPT !.seen = Append(@, TextAt(fs, rec.path))]
  IN /\ rec.pc = "planned"
     /\ IF w.ok THEN Suspend(p, [saw EXCEPT !.pc = "staged", !.text = w.fs[At(rec.path)]])
        ELSE Finish(p, saw, FALSE, w.err, fs)

\* create up to writeFile: the path is free and the directory is there, so nothing
\* suspends it between its test of the path and its call of writeFile
CreateCheck(p, paths) ==
  \E path \in paths :
    LET w == tldrawCreateFile(fs, path, JUndef, RaceUUID(p))
        rec == [Idle EXCEPT !.op = "create", !.path = path, !.id = RaceUUID(p)]
    IN /\ flight[p].pc = "idle"
       /\ IF w.ok THEN Suspend(p, [rec EXCEPT !.pc = "staged", !.text = w.fs[At(path)]])
          ELSE Finish(p, rec, FALSE, w.err, fs)

\* writeFile opens the file, which makes it when it is not there and empties it
WriteOpen(p) ==
  /\ flight[p].pc = "staged"
  /\ flight' = [flight EXCEPT ![p].pc = "opened"]
  /\ fs' = writeFile(fs, At(flight[p].path), <<>>)
  /\ UNCHANGED <<pre, last, hist>>

\* writeFile writes the text and the operation returns
WriteFill(p) ==
  /\ flight[p].pc = "opened"
  /\ Finish(p, flight[p], TRUE, "",
            writeFile(fs, At(flight[p].path),
                      Overwrite(fs[At(flight[p].path)], flight[p].text)))

NextRace ==
  \E p \in Procs :
    \/ AddShapeRead(p, RacePaths)
    \/ CreateCheck(p, {PathNew})
    \/ WriteStage(p)
    \/ WriteOpen(p)
    \/ WriteFill(p)

SpecRace == Init /\ [][NextRace]_vars

(***************************************************************************)
(* Failures and the validation of what is stored                           *)
(***************************************************************************)
FailureKinds ==
  {"PathTraversal", "UnsupportedExtension", "NotFound", "MalformedContent",
   "InvalidDocument", "InvalidWrappedDocument", "MissingBlock", "DuplicateBlock",
   "EmptyBlock", "NoPages", "ShapeNotFound", "AlreadyExists"}

\* C11: whenever read, write, create, get-shapes, add-shape, update-shape or
\* delete-shape fails, it fails with one of the failure kinds, no file has been
\* created and every file holds what it held before the operation.
C11_FailureAtomicity ==
  (last.op \in PathOperations /\ ~last.ok)
  => /\ last.err \in FailureKinds
     /\ DOMAIN fs = DOMAIN pre
     /\ \A p \in DOMAIN pre : fs[p] = pre[p]

\* a write to a markdown file whose payload is not JSON failed after the file was
\* read, and the file is what it was when the server started
C11_Witness ==
  /\ last.op = "write" /\ ~last.ok /\ last.path = PathMdBad
  /\ last.err = "MalformedContent"
  /\ last.touched = {At(PathMdBad)}
  /\ fs[At(PathMdBad)] = Undecodable[At(PathMdBad)]

\* every record is an object with a truthy identity and a truthy type tag
AllTagged(records) ==
  \A i \in 1..Len(records) :
    /\ records[i].t = "obj"
    /\ Truthy(Get(records[i], "id"))
    /\ Truthy(Get(records[i], "typeName"))

\* a numeric format version, a schema object, a records array of tagged records
SatisfiesValidator(doc) ==
  /\ doc.t = "obj"
  /\ Get(doc, "tldrawFileFormatVersion").t = "num"
  /\ Get(doc, "schema").t \in {"obj", "arr"}
  /\ Get(doc, "records").t = "arr"
  /\ AllTagged(Records(doc))

\* the text the last operation stored: the file, or what now stands between the
\* start marker and the end marker of the markdown file
PersistedText ==
  IF EndsWith(last.path, <<".md">>)
  THEN Slice(fs[At(last.path)], BlockBefore.jsonStart,
             Len(fs[At(last.path)]) - Len(SuffixBefore))
  ELSE fs[At(last.path)]

\* the document in the stored value v: its raw member when it has one
DocumentIn(v) == IF HasKey(v, "raw") THEN Get(v, "raw") ELSE v

PersistedDocument == DocumentIn(JsonParse(Trim(PersistedText)).v)

\* updates that set the identity or the type tag to a falsy value
Clears(updates) ==
  \/ HasKey(updates, "id") /\ ~Truthy(Get(updates, "id"))
  \/ HasKey(updates, "typeName") /\ ~Truthy(Get(updates, "typeName"))

\* C12: every document that read returns, every document whose shapes get-shapes
\* returns, and every document that a successful write, create, add-shape,
\* update-shape or delete-shape stores satisfies the validator; an update-shape
\* that would clear an identity or a type tag fails and stores nothing.
C12_ValidationGate ==
  /\ (last.op = "read" /\ last.ok) => SatisfiesValidator(last.res.file)
  /\ (last.op = "get-shapes" /\ last.ok)
       => (AllTagged(last.res) /\ SatisfiesValidator(Before.file))
  /\ ((last.op \in Mutations \/ last.op = "create") /\ last.ok)
       => SatisfiesValidator(PersistedDocument)
  /\ (last.op = "update-shape" /\ Clears(last.a2)) => (~last.ok /\ fs = pre)

\* an update that clears the type tag of a shape of a valid document was refused,
\* after a shape was added to it
C12_Witness ==
  /\ last.op = "update-shape" /\ last.path = PathA /\ last.a2 = FaultUpdates[1]
  /\ ~last.ok /\ last.err = "InvalidDocument"
  /\ fs = pre
  /\ hist[1].op = "add-shape" /\ hist[1].ok /\ hist[1].path = PathA

(***************************************************************************)
(* New documents                                                           *)
(***************************************************************************)
\* the last operation was a create on a .tldr path at which there was no file
CreatedFresh ==
  /\ last.op = "create" /\ EndsWith(last.path, <<".tldr">>)
  /\ ~existsSync(pre, TargetPath(last.path))

\* the records are a document record with the name, a page with ordering key a1, an
\* instance_page_state and a camera of that page, and nothing else
FourRecords(records, name) ==
  LET pages == FilterTypeName(records, <<"page">>)
      documents == FilterTypeName(records, <<"document">>)
      states == FilterTypeName(records, <<"instance_page_state">>)
      cameras == FilterTypeName(records, <<"camera">>)
  IN /\ Len(records) = 4
     /\ Len(documents) = 1 /\ Get(documents[1], "name") = name
     /\ Len(pages) = 1 /\ Get(pages[1], "index") = JStr(<<"a", "1">>)
     /\ Len(states) = 1 /\ Get(states[1], "pageId") = Get(pages[1], "id")
     /\ Len(cameras) = 1
     /\ Get(cameras[1], "id") = JStr(<<"camera:">> \o Get(pages[1], "id").v)
     /\ FilterTypeName(records, <<"shape">>) = <<>>

\* the read that follows returns the four records of a new document
ReadsAsNew(r) ==
  /\ r.ok
  /\ FourRecords(Records(r.file),
                 IF Truthy(last.a1) THEN last.a1
                 ELSE JStr(ReplaceFirst(last.path, <<".tldr">>)))

\* the list has a summary of the file with one page and no shape
ListReports(summaries, fullPath) ==
  \E i \in 1..Len(summaries) :
    /\ summaries[i].path = Relative(TLDRAW_DIR, fullPath)
    /\ summaries[i].pageCount = 1
    /\ summaries[i].shapeCount = 0

\* C13 as stated: create on a .tldr path at which there is no file succeeds, a read
\* returns the four records, list reports one page and no shape, add-shape without
\* a page succeeds.
C13_AsStated ==
  CreatedFresh
  => /\ last.ok
     /\ ReadsAsNew(tldrawRead(fs, last.path))
     /\ ListReports(tldrawList(fs, TRUE), TargetPath(last.path))
     /\ tldrawAddShape(fs, last.path, JObj(<<>>), JUndef, <<"u1">>).ok

\* C13: create on a .tldr path that the sandbox accepts and at which there is no
\* file succeeds; a read of the path then returns exactly four records (a document
\* record with the name, a page with ordering key a1, an instance_page_state and a
\* camera of that page, no shape); add-shape without a page succeeds on it; when
\* the file is below the root a recursive list reports one page and no shape for
\* it, and a list that is not recursive does when the file is directly in the root.
C13_CreateFresh ==
  (CreatedFresh /\ securePath(last.path).ok)
  => /\ last.ok
     /\ ReadsAsNew(tldrawRead(fs, last.path))
     /\ tldrawAddShape(fs, last.path, JObj(<<>>), JUndef, <<"u1">>).ok
     /\ IsUnder(At(last.path), TLDRAW_DIR)
          => ListReports(tldrawList(fs, TRUE), At(last.path))
     /\ DirOf(At(last.path)) = TLDRAW_DIR
          => ListReports(tldrawList(fs, FALSE), At(last.path))

\* a document named Plan was created in a new subdirectory of the root
C13_Witness ==
  /\ last.op = "create" /\ last.ok /\ last.path = PathSubNew
  /\ last.a1 = JStr(<<"Plan">>)
  /\ ~existsSync(pre, At(PathSubNew))
  /\ existsSync(fs, At(PathSubNew))
  /\ Len(Records(tldrawRead(fs, PathSubNew).file)) = 4

(***************************************************************************)
(* Writes over files that do not decode                                    *)
(***************************************************************************)
\* the content of the last write is a valid document without a container
BareInput ==
  last.a1.t = "obj" /\ ~HasKey(last.a1, "raw") /\ validateTldrawFile(last.a1).ok

\* the last operation wrote a bare document to a path with extension ext whose
\* file did not decode
WroteOverUndecodable(ext) ==
  /\ last.op = "write" /\ EndsWith(last.path, ext)
  /\ existsSync(pre, At(last.path))
  /\ ~Before.ok
  /\ BareInput

\* C14: a write of a bare document to a .tldr path whose file does not decode as a
\* plain or wrapped document (malformed JSON, raw null, raw not a valid document)
\* succeeds, and the file then holds exactly the bare document.
C14_ContainerRecovery ==
  WroteOverUndecodable(<<".tldr">>) => (last.ok /\ StoredIn(fs) = last.a1)

\* the 0-based offsets at which m occurs in s
Occurrences(s, m) == {i \in 0..(Len(s) - Len(m)) : OccursAt(s, m, i)}

\* exactly one start marker and exactly one end marker, the start marker first
OneBlock(text) ==
  LET starts == Occurrences(text, MARKDOWN_TLDRAW_START_MARKER)
      ends == Occurrences(text, MARKDOWN_TLDRAW_END_MARKER)
  IN /\ Cardinality(starts) = 1
     /\ Cardinality(ends) = 1
     /\ \A a \in starts : \A b \in ends : a < b

\* C15: a write of a valid document to an existing .md file with exactly one start
\* marker followed by exactly one end marker succeeds whatever stands between the
\* markers; a payload that does not decode is replaced by the serialized document.
C15_EmbeddedRecovery ==
  (/\ last.op = "write" /\ EndsWith(last.path, <<".md">>)
   /\ existsSync(pre, At(last.path))
   /\ OneBlock(pre[At(last.path)])
   /\ InputPayload(last.a1).ok)
  => /\ last.ok
     /\ ~Before.ok => Trim(PersistedText) = Stringify(last.a1)

(***************************************************************************)
(* The location of the block of a markdown file                            *)
(***************************************************************************)
\* the text between the only start marker and the only end marker
Between(text, starts, ends) ==
  Slice(text, (CHOOSE a \in starts : TRUE) + Len(MARKDOWN_TLDRAW_START_MARKER),
        CHOOSE b \in ends : TRUE)

\* what the claim says of the outcome r of decoding text, given the offsets of the
\* start markers and of the end markers in it
LocatedAsStated(text, starts, ends, r) ==
  /\ r.ok => /\ OneBlock(text)
             /\ Trim(Between(text, starts, ends)) # <<>>
  /\ (starts = {} \/ ends = {}) => (~r.ok /\ r.err = "MissingBlock")
  /\ (starts # {} /\ ends # {} /\ (Cardinality(starts) > 1 \/ Cardinality(ends) > 1))
       => (~r.ok /\ r.err = "DuplicateBlock")
  /\ (OneBlock(text) /\ Trim(Between(text, starts, ends)) = <<>>)
       => (~r.ok /\ r.err = "EmptyBlock")

\* C16: a read of a .md file succeeds only if the start marker occurs exactly once
\* in the file and the end marker exactly once, after it, with a payload that is
\* not blank between them; an absent marker fails MissingBlock, a second
\* occurrence of either marker anywhere fails DuplicateBlock, a blank payload
\* fails EmptyBlock.
C16_BlockLocation ==
  (last.op = "read" /\ EndsWith(last.path, <<".md">>) /\ existsSync(pre, At(last.path)))
  => LocatedAsStated(pre[At(last.path)],
                     Occurrences(pre[At(last.path)], MARKDOWN_TLDRAW_START_MARKER),
                     Occurrences(pre[At(last.path)], MARKDOWN_TLDRAW_END_MARKER),
                     last)

(***************************************************************************)
(* Markdown paths at which there is no file                                *)
(***************************************************************************)
\* the last operation was to store something at a .md path at which there was no file
OnMissingMarkdown ==
  /\ last.op \in Mutations \cup {"create"}
  /\ EndsWith(last.path, <<".md">>)
  /\ ~existsSync(pre, TargetPath(last.path))

\* C17 as stated: write, create, add-shape, update-shape and delete-shape on a .md
\* path at which there is no file fail with NotFound and create no file; create
\* never succeeds on a .md path.
C17_AsStated ==
  /\ OnMissingMarkdown => (~last.ok /\ last.err = "NotFound" /\ fs = pre)
  /\ (last.op = "create" /\ EndsWith(last.path, <<".md">>)) => ~last.ok

\* C17: write, create, add-shape, update-shape and delete-shape on a .md path at
\* which there is no file fail and create no file; the failure is NotFound when
\* the sandbox accepts the path and, for a write, the content is a valid payload;
\* create never succeeds on a .md path.
C17_NeverCreated ==
  /\ OnMissingMarkdown => (~last.ok /\ fs = pre)
  /\ (/\ OnMissingMarkdown
      /\ securePath(last.path).ok
      /\ last.op = "write" => InputPayload(last.a1).ok)
       => last.err = "NotFound"
  /\ (last.op = "create" /\ EndsWith(last.path, <<".md">>)) => ~last.ok

\* a create on a markdown path without a file was refused after a write to the same
\* path was, and there is still no file
C17_Witness ==
  /\ last.op = "create" /\ last.path = PathNewMd
  /\ ~last.ok /\ last.err = "NotFound"
  /\ hist[1].op = "write" /\ hist[1].path = PathNewMd /\ ~hist[1].ok
  /\ ~existsSync(fs, At(PathNewMd))

(***************************************************************************)
(* The page and the fields of an added shape                               *)
(***************************************************************************)
\* the last operation was an add-shape on a file that decoded
AddedTo == last.op = "add-shape" /\ Before.ok

\* the last record of a document
LastRecord(file) == Records(file)[Len(Records(file))]

\* the records of new are those of old followed by one more
OneAppended(old, new) ==
  /\ Len(Records(new)) = Len(Records(old)) + 1
  /\ SubSeq(Records(new), 1, Len(Records(old))) = Records(old)

\* what the claim says of an add-shape on document old with page id given when
\* that is what holds of the call
TargetPage(old, given) ==
  /\ (~given /\ FilterTypeName(Records(old), <<"page">>) # <<>>)
       => /\ last.ok
          /\ Get(LastRecord(After.file), "parentId")
               = Get(FilterTypeName(Records(old), <<"page">>)[1], "id")
  /\ (~given /\ FilterTypeName(Records(old), <<"page">>) = <<>>)
       => (~last.ok /\ last.err = "NoPages" /\ fs = pre)
  /\ given => (last.ok /\ Get(LastRecord(After.file), "parentId") = last.a2)
  /\ last.ok => (After.ok /\ OneAppended(old, After.file))

\* C18 as stated: with no page id the parent of the new shape is the first page
\* record, or add-shape fails with NoPages and changes nothing when there is none;
\* with a page id, whatever string it is, the parent is that page id; a successful
\* add-shape appends exactly one record and changes no other.
C18_AsStated == AddedTo => TargetPage(Before.file, last.a2.t # "undef")

\* C18: with no page id or an empty one the parent of the new shape is the first
\* page record, or add-shape fails with NoPages and changes nothing when there is
\* none; with a page id that is not empty the parent is that page id; a
\* successful add-shape appends exactly one record and changes no other.
C18_TargetPage == AddedTo => TargetPage(Before.file, Truthy(last.a2))

\* a shape was added to a page that the document does not have
C18_Witness ==
  /\ last.op = "add-shape" /\ last.ok /\ last.path = PathA /\ last.a2 = JStr(P9)
  /\ Get(LastRecord(After.file), "parentId") = JStr(P9)
  /\ Len(Records(After.file)) = Len(Records(DocA)) + 1

\* field key of the stored record is what the shape given says when it has the
\* key, the default otherwise
GivenOrDefault(given, record, key, default) ==
  Get(record, key) = (IF HasKey(given, key) THEN Get(given, key) ELSE default)

\* C19: the shape that a successful add-shape stores carries, for identity, type,
\* x, y, rotation, lock flag, opacity and props, the value of the shape given
\* when it gives one, and the default (the synthesized identity, geo, 0, 0, 0,
\* unlocked, opacity 1, the geo property set) only when it omits the field.
C19_Defaults ==
  (AddedTo /\ last.ok)
  => /\ GivenOrDefault(last.a1, LastRecord(After.file), "id",
                       JStr(hist[Len(hist)].id))
     /\ GivenOrDefault(last.a1, LastRecord(After.file), "type", JStr(<<"geo">>))
     /\ GivenOrDefault(last.a1, LastRecord(After.file), "x", JNum(0))
     /\ GivenOrDefault(last.a1, LastRecord(After.file), "y", JNum(0))
     /\ GivenOrDefault(last.a1, LastRecord(After.file), "rotation", JNum(0))
     /\ GivenOrDefault(last.a1, LastRecord(After.file), "isLocked", JBool(FALSE))
     /\ GivenOrDefault(last.a1, LastRecord(After.file), "opacity", JNum(1))
     /\ GivenOrDefault(last.a1, LastRecord(After.file), "props", DefaultProps)

(***************************************************************************)
(* The ordering keys of the shapes of a new document                       *)
(***************************************************************************)
\* the ordering key a<n>
OrderingKey(n) == JStr(<<"a">> \o NumText(n))

\* every shape has a key a<m> with m less than n
KeysBelow(shapes, n) ==
  \A i \in 1..Len(shapes) : \E m \in 1..(n - 1) : Get(shapes[i], "index") = OrderingKey(m)

\* no two shapes have the same ordering key
KeysDiffer(shapes) ==
  \A i, j \in 1..Len(shapes) : i # j => Get(shapes[i], "index") # Get(shapes[j], "index")

\* what the claim says of an add-shape that made the shapes of the document new
\* out of old
KeyedAfter(old, new) ==
  /\ Len(new) = Len(old) + 1
  /\ Get(new[Len(new)], "index") = OrderingKey(Len(old) + 1)
  /\ KeysBelow(old, Len(old) + 1)

\* C20: in a run of add-shape and delete-shape on a new document, each shape added
\* gets the key a<n> with n the number of shapes before the add plus one, n is
\* greater than the number in the key of every shape already there, and no two
\* shapes of the document have the same ordering key.
C20_OrderingKeys ==
  /\ (last.op = "add-shape" /\ last.ok)
       => KeyedAfter(ShapeRecordsOf(Before.file), ShapeRecordsOf(After.file))
  /\ KeysDiffer(ShapeRecordsOf(tldrawRead(fs, PathK).file))

(***************************************************************************)
(* Reading a file and writing the document back                            *)
(***************************************************************************)
\* the text of a markdown file outside its block is the same in text and in new
SameFrame(text, new, block, newBlock) ==
  /\ newBlock.ok
  /\ Slice(new, 0, newBlock.jsonStart) = Slice(text, 0, block.jsonStart)
  /\ SliceFrom(new, newBlock.jsonEnd) = SliceFrom(text, block.jsonEnd)

\* the members other than raw of the container of a read, none when it has none
ContainerFields(r) ==
  IF Truthy(r.wrappedContainer) THEN OtherMembers(r.wrappedContainer) ELSE <<>>

\* what the claim says of the write w of the document that the read r of path
\* returned from the files f
RewriteKeeps(f, path, r, w) ==
  /\ w.ok
  /\ tldrawRead(w.fs, path).ok
  /\ tldrawRead(w.fs, path).file = r.file
  /\ tldrawRead(w.fs, path).storageFormat = r.storageFormat
  /\ ContainerFields(tldrawRead(w.fs, path)) = ContainerFields(r)
  /\ EndsWith(path, <<".md">>)
       => SameFrame(f[At(path)], w.fs[At(path)], locateMarkdownTldrawBlock(f[At(path)]),
                    locateMarkdownTldrawBlock(w.fs[At(path)]))
  /\ tldrawWrite(w.fs, path, r.file).fs = w.fs

\* C21: for a file that decodes, in any of the three storage formats, writing the
\* document that a read returns back to the path keeps the document, the storage
\* format, every member of the container other than raw and, in a markdown file,
\* the text outside the markers; writing it again leaves the file as the first
\* write left it.
C21_Idempotence ==
  (last.op = "read" /\ last.ok)
  => RewriteKeeps(fs, last.path, After, tldrawWrite(fs, last.path, last.res.file))

\* C24: after a successful write of a valid document to a markdown file, a read
\* of the file succeeds and returns the document that was written.
C24_ReadAfterWrite ==
  (last.op = "write" /\ last.ok /\ EndsWith(last.path, <<".md">>))
  => (After.ok /\ After.file = InputPayload(last.a1).file)

(***************************************************************************)
(* The relative paths the sandbox accepts                                  *)
(***************************************************************************)
\* relative path p is refused exactly when it resolves outside the root
RefusedWhenOutside(p) == securePath(p).ok <=> InRoot(TargetPath(p))

\* the file of a summary of the list reads through the path the summary gives
Rereads(f, p) ==
  /\ ~IsAbsolute(p) => RefusedWhenOutside(p)
  /\ tldrawRead(f, p).ok
  /\ tldrawGetShapes(f, p, JUndef).ok

\* C27: a relative path is refused exactly when it resolves outside the root, so
\* every file that a recursive list reports reads, through read and get-shapes,
\* by the path the list gives for it.
C27_SandboxCompleteness ==
  /\ (last.op \in PathOperations /\ ~IsAbsolute(last.path)) => RefusedWhenOutside(last.path)
  /\ (last.op = "list" /\ last.a1 = JBool(TRUE))
       => \A i \in 1..Len(last.res) : Rereads(fs, last.res[i].path)

(***************************************************************************)
(* The records update-shape and delete-shape touch                         *)
(***************************************************************************)
ByIdentity == last.op \in {"update-shape", "delete-shape"}

\* the position in the document before the operation of the record it names, 0 for none
Named == FindIndexById(Records(Before.file), last.a1)

\* the records of the document before and after the operation
RecordsBefore == Records(Before.file)
RecordsAfter == Records(After.file)

NotShapes(records) ==
  SelectSeq(records, LAMBDA r : ~StrictEq(Get(r, "typeName"), JStr(<<"shape">>)))

\* every record but the one at position n is where it was and as it was
OthersKept(n) ==
  IF last.op = "delete-shape"
  THEN RecordsAfter = [i \in 1..(Len(RecordsBefore) - 1) |->
                          RecordsBefore[IF i < n THEN i ELSE i + 1]] \o <<>>
  ELSE /\ Len(RecordsAfter) = Len(RecordsBefore)
       /\ \A i \in 1..Len(RecordsBefore) : i # n => RecordsAfter[i] = RecordsBefore[i]

\* the claim as stated: only a record of type shape is named, and every other record
\* stays
C26_AsStated ==
  (ByIdentity /\ last.ok)
    => /\ Named # 0
       /\ StrictEq(Get(RecordsBefore[Named], "typeName"), JStr(<<"shape">>))
       /\ NotShapes(RecordsAfter) = NotShapes(RecordsBefore)
       /\ last.op = "delete-shape" => Len(RecordsAfter) = Len(RecordsBefore) - 1

\* C26: update-shape and delete-shape act on the record that has the given identity,
\* whatever its type tag: they succeed only when a record has it, delete-shape succeeds
\* whenever one has it and removes exactly that record, and after either every other
\* record is where it was and as it was.
C26_ByIdentity ==
  ByIdentity
    => /\ last.ok => (Before.ok /\ Named # 0 /\ After.ok /\ OthersKept(Named))
       /\ (last.op = "delete-shape" /\ Before.ok /\ Named # 0) => last.ok

\* an operation succeeded on the identity of the page, after a delete-shape that removed
\* the page and one that removed a shape
C26_Witness ==
  /\ ByIdentity /\ last.ok /\ last.a1 = JStr(P1)
  /\ \E i \in 1..Len(hist) : hist[i].op = "delete-shape" /\ hist[i].ok /\ hist[i].id = P1
  /\ \E i \in 1..Len(hist) : hist[i].op = "delete-shape" /\ hist[i].ok /\ hist[i].id = S1

(***************************************************************************)
(* The parents of the shapes of a document                                 *)
(***************************************************************************)
\* the identities of the pages of a document
PagesOf(file) ==
  {Get(FilterTypeName(Records(file), <<"page">>)[i], "id") :
     i \in 1..Len(FilterTypeName(Records(file), <<"page">>))}

\* the shapes of a document whose parent is no page of it
Orphans(file) ==
  SelectSeq(FilterTypeName(Records(file), <<"shape">>),
            LAMBDA r : Get(r, "parentId") \notin PagesOf(file))

\* the claim as stated: every shape has a page of the document for its parent, and a
\* page id that names no page adds nothing
C25_AsStated ==
  (last.op = "add-shape" /\ Before.ok)
    => /\ After.ok /\ Orphans(After.file) = <<>>
       /\ (Truthy(last.a2) /\ last.a2 \notin PagesOf(Before.file)) => fs = pre

\* C25: starting from a freshly created document, every add-shape succeeds and appends
\* one shape; its parent is the page id given when one that is not empty is given,
\* whether or not it names a page of the document, and the first page otherwise; so the
\* shapes whose parent is no page of the document are exactly those added with a page
\* id that names none.
C25_ParentIntegrity ==
  (last.op = "add-shape" /\ Before.ok)
    => /\ last.ok /\ After.ok /\ OneAppended(Before.file, After.file)
       /\ Get(LastRecord(After.file), "typeName") = JStr(<<"shape">>)
       /\ Get(LastRecord(After.file), "parentId")
            = (IF Truthy(last.a2) THEN last.a2
               ELSE Get(FilterTypeName(Records(Before.file), <<"page">>)[1], "id"))
       /\ ~Truthy(last.a2) => Get(LastRecord(After.file), "parentId") \in PagesOf(After.file)
       /\ PagesOf(After.file) = PagesOf(Before.file)
       /\ Orphans(After.file)
            = Orphans(Before.file)
                \o (IF Truthy(last.a2) /\ last.a2 \notin PagesOf(Before.file)
                    THEN <<LastRecord(After.file)>> ELSE <<>>)

\* three shapes added: one with no page id, one with the page of the document, one with
\* a page id that names no page, which is the only one without a page for its parent
C25_Witness ==
  /\ last.op = "add-shape" /\ last.ok /\ last.a2 = JStr(P9) /\ Len(hist) = 3
  /\ Len(FilterTypeName(Records(After.file), <<"shape">>)) = 3
  /\ Orphans(After.file) = <<LastRecord(After.file)>>
  /\ Get(Records(After.file)[Len(Records(After.file)) - 1], "parentId") = JStr(P0)

(***************************************************************************)
(* Operations in flight together                                           *)
(***************************************************************************)
\* the two callers ran operation op on one path and both operations are over
BothRan(op) ==
  /\ \A p \in Procs : flight[p].op = op /\ flight[p].pc = "done"
  /\ flight[1].path = flight[2].path

\* C23: of two create operations in flight together on a path that is free, at most one
\* reports success and the other fails with AlreadyExists; a create that succeeds does
\* not write over the file that an earlier create made.
C23_CreateExclusive ==
  /\ BothRan("create")
       => \E p \in Procs : ~flight[p].ok /\ flight[p].err = "AlreadyExists"
  /\ (last.op = "create" /\ last.ok)
       => \A i \in 1..(Len(hist) - 1) :
            ~(hist[i].op = "create" /\ hist[i].ok /\ hist[i].path = last.path)

\* a read of the operation of caller p fell between the two halves of a write
SawEmptied(p) == \E i \in 1..Len(flight[p].seen) : flight[p].seen[i] = <<>>

\* the caller whose operation returned last
LastWriter == CHOOSE p \in Procs : hist[Len(hist)].id = flight[p].id

\* the file the two operations ran on, decoded
Final == tldrawRead(fs, flight[1].path)

HasRecord(file, id) == FindIndexById(Records(file), JStr(id)) # 0

====
